---- MODULE Spec2Model ----
(***************************************************************************)
(* The knowledge-graph store of src/index.ts: the line-oriented file       *)
(* format (loadGraph / saveGraph), the operations of                       *)
(* KnowledgeGraphManager, the resolution of a database path from context,  *)
(* location and the directories above the working directory, and the       *)
(* steps a call takes between its awaits.                                  *)
(*                                                                         *)
(* Spec              calls on a database that starts absent or marker-only *)
(* SpecOther         calls on a path where something else put a file       *)
(* SpecStore         saveGraph of a graph in memory, then loadGraph        *)
(* SpecQuery         searchNodes and openNodes on stored graphs            *)
(* SpecObservations  addObservations on stored observations                *)
(* SpecDeletions     deleteObservations on stored observations             *)
(* SpecPath          getMemoryFilePath over lists of directories           *)
(* SpecRoot          findProjectRoot over lists of directories             *)
(* SpecDisk          calls with context and location, step by step         *)
(* SpecOverlap       two calls on one database, their steps interleaved    *)
(* SpecRelocate      two calls in a project, their steps interleaved       *)
(* SpecCrash         a save cut short, then the calls of the next process  *)
(* SpecList          listDatabases over directories and their files        *)
(* SpecCreate        calls and listings on a disk without databases        *)
(*                                                                         *)
(* In the first six specifications every call resolves to the same path    *)
(* (getMemoryFilePath with the same context and location in an unchanged   *)
(* directory tree) and runs to its end before the next one starts: the     *)
(* variables file and last hold the state, disk and procs stay as they     *)
(* are.  SpecPath and SpecRoot keep their result in last; the others work  *)
(* on disk and procs.                                                      *)
(***************************************************************************)
EXTENDS Integers, Sequences, FiniteSets, TLC

\* ------------------------------------------------------------------ bounds

\* cap on the stored graph, so that the state space is finite: the number of
\* its entities, observations and relations together
MaxSize == 3

\* the strings calls are made with
Names == {"a", "Ab"}
EntityTypes == {"t", "u"}
RelationTypes == {"r"}
Queries == {"a", "B"}
\* the observation lists calls are made with: none, one, one repeated
ObservationLists == {<<>>, <<"x">>, <<"x", "x">>}
\* the lengths of the lists calls are made with: long enough to repeat an
\* element within one call
BatchLengths == {0, 1, 2}

\* ------------------------------------------------------------ JSON records

\* JS `undefined`: what reading a missing property yields
Undefined == "<undefined>"

\* obj.f in JavaScript, for a parsed JSON object
Get(obj, f) == IF f \in DOMAIN obj THEN obj[f] ELSE Undefined

\* { ...base, ...e } : the properties of e override those of base
Spread(base, e) == e @@ base

FILE_MARKER == [type |-> "_aim", source |-> "mcp-knowledge-graph"]

\* A line of a file is blank, is no JSON text, or is the text of a JSON value:
\* null, a scalar, or an object.
BlankLine == [kind |-> "blank"]
InvalidLine == [kind |-> "invalid"]
NullLine == [kind |-> "null"]
ScalarLine == [kind |-> "scalar"]
ObjectLine(o) == [kind |-> "object", val |-> o]

\* JSON.stringify of an object: one line of text
Stringify(o) == ObjectLine(o)

\* the file that does not exist, and a file holding the given lines
AbsentFile == [exists |-> FALSE, lines |-> <<>>]
FileOf(ls) == [exists |-> TRUE, lines |-> ls]

EmptyGraph == [entities |-> <<>>, relations |-> <<>>]

\* results of a call: a value, or a thrown error
Ok(v) == [ok |-> TRUE, val |-> v, err |-> "", about |-> ""]
Throw(e, what) == [ok |-> FALSE, val |-> <<>>, err |-> e, about |-> what]

\* ------------------------------------------------------------------ helpers

\* the lists over S a call is made with
Batches(S) == UNION {[1..n -> S] : n \in BatchLengths}

Range(s) == {s[i] : i \in 1..Len(s)}

\* Array.prototype.includes
ArrIncludes(s, x) == \E i \in 1..Len(s) : s[i] = x

\* index of the first element of entities with the given name, 0 if none
\* (Array.prototype.find returns the first match)
FindEntity(entities, n) ==
  IF \E i \in 1..Len(entities) : entities[i].name = n
  THEN CHOOSE i \in 1..Len(entities) :
         /\ entities[i].name = n
         /\ \A j \in 1..(i - 1) : entities[j].name # n
  ELSE 0

SameTriple(r, s) ==
  r.from = s.from /\ r.to = s.to /\ r.relationType = s.relationType

\* ------------------------------------------------------------- Graph Store

\* a reduce that misses the relation records
RECURSIVE ParseRecordsEntitiesOnly(_, _)
ParseRecordsEntitiesOnly(lines, graph) ==
  IF lines = <<>> THEN Ok(graph)
  ELSE LET line == Head(lines) IN
       IF line.kind = "invalid" THEN Throw("SyntaxError", "")
       ELSE IF line.kind = "null" THEN Throw("TypeError", "")
       ELSE IF line.kind = "scalar" THEN ParseRecordsEntitiesOnly(Tail(lines), graph)
       ELSE ParseRecordsEntitiesOnly(Tail(lines),
              IF Get(line.val, "type") = "entity"
              THEN [graph EXCEPT !.entities = Append(@, line.val)]
              ELSE graph)

\* a reduce that refuses a record of a type it does not know
RECURSIVE ParseRecordsKnownOnly(_, _)
ParseRecordsKnownOnly(lines, graph) ==
  IF lines = <<>> THEN Ok(graph)
  ELSE LET line == Head(lines) IN
       IF line.kind = "invalid" THEN Throw("SyntaxError", "")
       ELSE IF line.kind = "null" THEN Throw("TypeError", "")
       ELSE IF line.kind = "scalar" THEN Throw("TypeError", "")
       ELSE IF Get(line.val, "type") = "entity"
            THEN ParseRecordsKnownOnly(Tail(lines), [graph EXCEPT !.entities = Append(@, line.val)])
            ELSE IF Get(line.val, "type") = "relation"
                 THEN ParseRecordsKnownOnly(Tail(lines), [graph EXCEPT !.relations = Append(@, line.val)])
                 ELSE Throw("TypeError", "")

\* loadGraph's reduce over the lines after the marker: JSON.parse each line,
\* push entities and relations, skip records of any other type.
RECURSIVE ParseRecords(_, _)
ParseRecords(lines, graph) ==
  IF lines = <<>> THEN Ok(graph)
  ELSE LET line == Head(lines) IN
       IF line.kind = "invalid" THEN Throw("SyntaxError", "")
       ELSE IF line.kind = "null" THEN Throw("TypeError", "")
       ELSE IF line.kind = "scalar" THEN ParseRecords(Tail(lines), graph)
       ELSE LET item == line.val
                g1 == IF Get(item, "type") = "entity"
                      THEN [graph EXCEPT !.entities = Append(@, item)]
                      ELSE graph
                g2 == IF Get(item, "type") = "relation"
                      THEN [g1 EXCEPT !.relations = Append(@, item)]
                      ELSE g1
            IN ParseRecords(Tail(lines), g2)

NonBlank(line) == line.kind # "blank"

\* a check that takes the marker record and nothing else
MarkerCheckDeep(line) ==
  IF line.kind = "invalid" THEN Throw("SyntaxError", "")
  ELSE IF line.kind = "null" THEN Throw("TypeError", "")
  ELSE IF line.kind = "scalar" THEN Throw("MarkerError", "")
  ELSE IF line.val # FILE_MARKER THEN Throw("MarkerError", "")
       ELSE Ok(<<>>)

\* the check of the first line (src/index.ts:181-184)
MarkerCheck(line) ==
  IF line.kind = "invalid" THEN Throw("SyntaxError", "")
  ELSE IF line.kind = "null" THEN Throw("TypeError", "")
  ELSE IF line.kind = "scalar" THEN Throw("MarkerError", "")
  ELSE IF Get(line.val, "type") # "_aim" \/ Get(line.val, "source") # "mcp-knowledge-graph"
       THEN Throw("MarkerError", "")
       ELSE Ok(<<>>)

\* a load whose catch turns every error into the empty graph
loadGraphCatchAll(f) ==
  IF ~f.exists THEN Ok(EmptyGraph)
  ELSE LET lines == SelectSeq(f.lines, NonBlank) IN
       IF Len(lines) = 0 THEN Ok(EmptyGraph)
       ELSE LET first == MarkerCheck(lines[1])
                rest == ParseRecords(Tail(lines), EmptyGraph)
            IN IF first.ok /\ rest.ok THEN rest ELSE Ok(EmptyGraph)

\* a load that lets the ENOENT of a missing file out of its catch
loadGraphStrict(f) ==
  IF ~f.exists THEN Throw("ENOENT", "")
  ELSE LET lines == SelectSeq(f.lines, NonBlank) IN
       IF Len(lines) = 0 THEN Ok(EmptyGraph)
       ELSE LET first == MarkerCheck(lines[1]) IN
            IF ~first.ok THEN first
            ELSE ParseRecords(Tail(lines), EmptyGraph)

\* a load that runs the marker check on a file without lines as well:
\* JSON.parse of the missing first line raises a SyntaxError
loadGraphNoEmpty(f) ==
  IF ~f.exists THEN Ok(EmptyGraph)
  ELSE LET lines == SelectSeq(f.lines, NonBlank) IN
       IF Len(lines) = 0 THEN Throw("SyntaxError", "")
       ELSE LET first == MarkerCheck(lines[1]) IN
            IF ~first.ok THEN first
            ELSE ParseRecords(Tail(lines), EmptyGraph)

loadGraph(f) ==
  IF ~f.exists THEN Ok(EmptyGraph)
  ELSE LET lines == SelectSeq(f.lines, NonBlank) IN
       IF Len(lines) = 0 THEN Ok(EmptyGraph)
       ELSE LET first == MarkerCheck(lines[1]) IN
            IF ~first.ok THEN first
            ELSE ParseRecords(Tail(lines), EmptyGraph)

\* the lines saveGraph writes; writeFile replaces the file wholesale
EntityRecord(e) == Stringify(Spread([type |-> "entity"], e))
RelationRecord(r) == Stringify(Spread([type |-> "relation"], r))

\* a save that writes no marker line
saveGraphNoMarker(graph) ==
  FileOf([i \in 1..Len(graph.entities) |-> EntityRecord(graph.entities[i])]
         \o [i \in 1..Len(graph.relations) |-> RelationRecord(graph.relations[i])])

saveGraph(graph) ==
  FileOf(<<Stringify(FILE_MARKER)>>
         \o [i \in 1..Len(graph.entities) |-> EntityRecord(graph.entities[i])]
         \o [i \in 1..Len(graph.relations) |-> RelationRecord(graph.relations[i])])

\* ------------------------------------------------------- Graph Operations
\* Each operation maps its input and the backing file to the file it leaves
\* and to what it returns or throws.  A throw before saveGraph leaves the file.

Outcome(f, r) == [file |-> f, ret |-> r]

HasName(entities, n) == \E i \in 1..Len(entities) : entities[i].name = n
HasTriple(relations, r) == \E i \in 1..Len(relations) : SameTriple(relations[i], r)

\* a create that replaces the stored entity of an incoming entity's name
createEntitiesUpsert(entities, f) ==
  LET loaded == loadGraph(f) IN
  IF ~loaded.ok THEN Outcome(f, loaded)
  ELSE LET graph == loaded.val
           IsNew(e) == ~HasName(graph.entities, e.name)
           newEntities == SelectSeq(entities, IsNew)
           Incoming(e) ==
             IF \E k \in 1..Len(entities) : entities[k].name = e.name
             THEN entities[CHOOSE k \in 1..Len(entities) : entities[k].name = e.name]
             ELSE e
           replaced == [i \in 1..Len(graph.entities) |-> Incoming(graph.entities[i])]
           saved == [graph EXCEPT !.entities = replaced \o newEntities]
       IN Outcome(saveGraph(saved), Ok(newEntities))

createEntities(entities, f) ==
  LET loaded == loadGraph(f) IN
  IF ~loaded.ok THEN Outcome(f, loaded)
  ELSE LET graph == loaded.val
           IsNew(e) == ~HasName(graph.entities, e.name)
           newEntities == SelectSeq(entities, IsNew)
           saved == [graph EXCEPT !.entities = @ \o newEntities]
       IN Outcome(saveGraph(saved), Ok(newEntities))

\* a createRelations that keeps only the relations between stored entities
createRelationsChecked(relations, f) ==
  LET loaded == loadGraph(f) IN
  IF ~loaded.ok THEN Outcome(f, loaded)
  ELSE LET graph == loaded.val
           IsNew(r) ==
             /\ ~HasTriple(graph.relations, r)
             /\ HasName(graph.entities, r.from)
             /\ HasName(graph.entities, r.to)
           newRelations == SelectSeq(relations, IsNew)
           saved == [graph EXCEPT !.relations = @ \o newRelations]
       IN Outcome(saveGraph(saved), Ok(newRelations))

createRelations(relations, f) ==
  LET loaded == loadGraph(f) IN
  IF ~loaded.ok THEN Outcome(f, loaded)
  ELSE LET graph == loaded.val
           IsNew(r) == ~HasTriple(graph.relations, r)
           newRelations == SelectSeq(relations, IsNew)
           saved == [graph EXCEPT !.relations = @ \o newRelations]
       IN Outcome(saveGraph(saved), Ok(newRelations))

\* a map callback that puts the new observations before the old ones
RECURSIVE addObservationsMapPrepend(_, _, _)
addObservationsMapPrepend(entities, observations, results) ==
  IF observations = <<>> THEN Ok([entities |-> entities, results |-> results])
  ELSE LET o == Head(observations)
           i == FindEntity(entities, o.entityName)
       IN IF i = 0 THEN Throw("NotFound", o.entityName)
          ELSE LET IsNew(c) == ~ArrIncludes(entities[i].observations, c)
                   newObservations == SelectSeq(o.contents, IsNew)
                   pushed == [entities EXCEPT ![i].observations = newObservations \o @]
               IN addObservationsMapPrepend(pushed, Tail(observations),
                    Append(results, [entityName |-> o.entityName,
                                     addedObservations |-> newObservations]))

\* the observations.map callback of addObservations, entry by entry: each
\* entry sees the entities as the entries before it left them
RECURSIVE addObservationsMap(_, _, _)
addObservationsMap(entities, observations, results) ==
  IF observations = <<>> THEN Ok([entities |-> entities, results |-> results])
  ELSE LET o == Head(observations)
           i == FindEntity(entities, o.entityName)
       IN IF i = 0 THEN Throw("NotFound", o.entityName)
          ELSE LET IsNew(c) == ~ArrIncludes(entities[i].observations, c)
                   newObservations == SelectSeq(o.contents, IsNew)
                   pushed == [entities EXCEPT ![i].observations = @ \o newObservations]
               IN addObservationsMap(pushed, Tail(observations),
                    Append(results, [entityName |-> o.entityName,
                                     addedObservations |-> newObservations]))

\* the entities as the entries before the first missing one leave them
RECURSIVE addObservationsPartial(_, _)
addObservationsPartial(entities, observations) ==
  IF observations = <<>> THEN entities
  ELSE LET o == Head(observations)
           i == FindEntity(entities, o.entityName)
       IN IF i = 0 THEN entities
          ELSE LET IsNew(c) == ~ArrIncludes(entities[i].observations, c)
               IN addObservationsPartial(
                    [entities EXCEPT ![i].observations = @ \o SelectSeq(o.contents, IsNew)],
                    Tail(observations))

\* an addObservations that saves what it has when an entry throws
addObservationsSavesPartial(observations, f) ==
  LET loaded == loadGraph(f) IN
  IF ~loaded.ok THEN Outcome(f, loaded)
  ELSE LET graph == loaded.val
           mapped == addObservationsMap(graph.entities, observations, <<>>)
       IN IF ~mapped.ok
          THEN Outcome(saveGraph([graph EXCEPT !.entities =
                                    addObservationsPartial(@, observations)]), mapped)
          ELSE Outcome(saveGraph([graph EXCEPT !.entities = mapped.val.entities]),
                       Ok(mapped.val.results))

addObservations(observations, f) ==
  LET loaded == loadGraph(f) IN
  IF ~loaded.ok THEN Outcome(f, loaded)
  ELSE LET graph == loaded.val
           mapped == addObservationsMap(graph.entities, observations, <<>>)
       IN IF ~mapped.ok THEN Outcome(f, mapped)
          ELSE Outcome(saveGraph([graph EXCEPT !.entities = mapped.val.entities]),
                       Ok(mapped.val.results))

\* a delete that cascades to the relations from a deleted entity only
deleteEntitiesFromOnly(entityNames, f) ==
  LET loaded == loadGraph(f) IN
  IF ~loaded.ok THEN Outcome(f, loaded)
  ELSE LET graph == loaded.val
           KeepE(e) == ~ArrIncludes(entityNames, e.name)
           KeepR(r) == ~ArrIncludes(entityNames, r.from)
           saved == [entities |-> SelectSeq(graph.entities, KeepE),
                     relations |-> SelectSeq(graph.relations, KeepR)]
       IN Outcome(saveGraph(saved), Ok(<<>>))

\* a delete that saves only when it removed something
deleteEntitiesLazy(entityNames, f) ==
  LET loaded == loadGraph(f) IN
  IF ~loaded.ok THEN Outcome(f, loaded)
  ELSE LET graph == loaded.val
           KeepE(e) == ~ArrIncludes(entityNames, e.name)
           KeepR(r) == ~ArrIncludes(entityNames, r.from) /\ ~ArrIncludes(entityNames, r.to)
           saved == [entities |-> SelectSeq(graph.entities, KeepE),
                     relations |-> SelectSeq(graph.relations, KeepR)]
       IN IF saved.entities = graph.entities /\ saved.relations = graph.relations
          THEN Outcome(f, Ok(<<>>))
          ELSE Outcome(saveGraph(saved), Ok(<<>>))

deleteEntities(entityNames, f) ==
  LET loaded == loadGraph(f) IN
  IF ~loaded.ok THEN Outcome(f, loaded)
  ELSE LET graph == loaded.val
           KeepE(e) == ~ArrIncludes(entityNames, e.name)
           KeepR(r) == ~ArrIncludes(entityNames, r.from) /\ ~ArrIncludes(entityNames, r.to)
           saved == [entities |-> SelectSeq(graph.entities, KeepE),
                     relations |-> SelectSeq(graph.relations, KeepR)]
       IN Outcome(saveGraph(saved), Ok(<<>>))

\* a delete that looks at the first string of each entry's list only
RECURSIVE deleteObservationsEachHead(_, _)
deleteObservationsEachHead(entities, deletions) ==
  IF deletions = <<>> THEN entities
  ELSE LET d == Head(deletions)
           i == FindEntity(entities, d.entityName)
           Keep(o) == d.observations = <<>> \/ o # d.observations[1]
       IN deleteObservationsEachHead(
            IF i = 0 THEN entities
            ELSE [entities EXCEPT ![i].observations = SelectSeq(@, Keep)],
            Tail(deletions))

\* the deletions.forEach callback of deleteObservations
RECURSIVE deleteObservationsEach(_, _)
deleteObservationsEach(entities, deletions) ==
  IF deletions = <<>> THEN entities
  ELSE LET d == Head(deletions)
           i == FindEntity(entities, d.entityName)
           Keep(o) == ~ArrIncludes(d.observations, o)
       IN deleteObservationsEach(
            IF i = 0 THEN entities
            ELSE [entities EXCEPT ![i].observations = SelectSeq(@, Keep)],
            Tail(deletions))

\* a delete that drops the entities it left without observations
deleteObservationsPrune(deletions, f) ==
  LET loaded == loadGraph(f) IN
  IF ~loaded.ok THEN Outcome(f, loaded)
  ELSE LET graph == loaded.val
           HasSome(e) == e.observations # <<>>
           saved == [graph EXCEPT !.entities =
                       SelectSeq(deleteObservationsEach(@, deletions), HasSome)]
       IN Outcome(saveGraph(saved), Ok(<<>>))

deleteObservations(deletions, f) ==
  LET loaded == loadGraph(f) IN
  IF ~loaded.ok THEN Outcome(f, loaded)
  ELSE LET graph == loaded.val
           saved == [graph EXCEPT !.entities = deleteObservationsEach(@, deletions)]
       IN Outcome(saveGraph(saved), Ok(<<>>))

deleteRelations(relations, f) ==
  LET loaded == loadGraph(f) IN
  IF ~loaded.ok THEN Outcome(f, loaded)
  ELSE LET graph == loaded.val
           Keep(r) == ~HasTriple(relations, r)
           saved == [graph EXCEPT !.relations = SelectSeq(@, Keep)]
       IN Outcome(saveGraph(saved), Ok(<<>>))

readGraph(f) == Outcome(f, loadGraph(f))

\* String.prototype.toLowerCase, for the letters the model's strings use
LowerChar(c) ==
  CASE c = "A" -> "a" [] c = "B" -> "b" [] c = "T" -> "t" [] c = "X" -> "x"
    [] OTHER -> c

RECURSIVE toLowerCase(_)
toLowerCase(s) ==
  IF Len(s) = 0 THEN s
  ELSE LowerChar(SubSeq(s, 1, 1)) \o toLowerCase(SubSeq(s, 2, Len(s)))

\* String.prototype.includes
StrIncludes(s, q) ==
  \E i \in 1..(Len(s) - Len(q) + 1) : SubSeq(s, i, i + Len(q) - 1) = q

\* a filter that keeps a relation when one endpoint is among the entities
BetweenEither(relations, filteredEntities) ==
  LET filteredEntityNames == {filteredEntities[i].name : i \in 1..Len(filteredEntities)}
      Keep(r) == r.from \in filteredEntityNames \/ r.to \in filteredEntityNames
  IN SelectSeq(relations, Keep)

\* the relations both of whose endpoints are among the filtered entities
Between(relations, filteredEntities) ==
  LET filteredEntityNames == {filteredEntities[i].name : i \in 1..Len(filteredEntities)}
      Keep(r) == r.from \in filteredEntityNames /\ r.to \in filteredEntityNames
  IN SelectSeq(relations, Keep)

\* a search that compares the query as it was typed
searchNodesNoFold(query, f) ==
  LET loaded == loadGraph(f) IN
  IF ~loaded.ok THEN Outcome(f, loaded)
  ELSE LET graph == loaded.val
           Match(e) ==
             \/ StrIncludes(toLowerCase(e.name), query)
             \/ StrIncludes(toLowerCase(e.entityType), query)
             \/ \E i \in 1..Len(e.observations) :
                  StrIncludes(toLowerCase(e.observations[i]), query)
           filteredEntities == SelectSeq(graph.entities, Match)
       IN Outcome(f, Ok([entities |-> filteredEntities,
                         relations |-> Between(graph.relations, filteredEntities)]))

searchNodes(query, f) ==
  LET loaded == loadGraph(f) IN
  IF ~loaded.ok THEN Outcome(f, loaded)
  ELSE LET graph == loaded.val
           q == toLowerCase(query)
           Match(e) ==
             \/ StrIncludes(toLowerCase(e.name), q)
             \/ StrIncludes(toLowerCase(e.entityType), q)
             \/ \E i \in 1..Len(e.observations) :
                  StrIncludes(toLowerCase(e.observations[i]), q)
           filteredEntities == SelectSeq(graph.entities, Match)
       IN Outcome(f, Ok([entities |-> filteredEntities,
                         relations |-> Between(graph.relations, filteredEntities)]))

\* an openNodes that compares names without regard to case
openNodesIgnoreCase(names, f) ==
  LET loaded == loadGraph(f) IN
  IF ~loaded.ok THEN Outcome(f, loaded)
  ELSE LET graph == loaded.val
           Match(e) == \E i \in 1..Len(names) : toLowerCase(names[i]) = toLowerCase(e.name)
           filteredEntities == SelectSeq(graph.entities, Match)
       IN Outcome(f, Ok([entities |-> filteredEntities,
                         relations |-> Between(graph.relations, filteredEntities)]))

openNodes(names, f) ==
  LET loaded == loadGraph(f) IN
  IF ~loaded.ok THEN Outcome(f, loaded)
  ELSE LET graph == loaded.val
           Match(e) == ArrIncludes(names, e.name)
           filteredEntities == SelectSeq(graph.entities, Match)
       IN Outcome(f, Ok([entities |-> filteredEntities,
                         relations |-> Between(graph.relations, filteredEntities)]))

\* a handler table in which readGraph ends in saveGraph as well
MutationsAndRead ==
  {"createEntities", "createRelations", "addObservations",
   "deleteEntities", "deleteObservations", "deleteRelations", "readGraph"}

\* the operations that end in saveGraph
Mutations ==
  {"createEntities", "createRelations", "addObservations",
   "deleteEntities", "deleteObservations", "deleteRelations"}

\* the operation of the given name
Apply(op, arg, f) ==
  CASE op = "createEntities" -> createEntities(arg, f)
    [] op = "createRelations" -> createRelations(arg, f)
    [] op = "addObservations" -> addObservations(arg, f)
    [] op = "deleteEntities" -> deleteEntities(arg, f)
    [] op = "deleteObservations" -> deleteObservations(arg, f)
    [] op = "deleteRelations" -> deleteRelations(arg, f)
    [] op = "readGraph" -> readGraph(f)
    [] op = "searchNodes" -> searchNodes(arg, f)
    [] op = "openNodes" -> openNodes(arg, f)

\* ------------------------------------------------------ directories, paths
\* The directories from the working directory up to the filesystem root are
\* a list, the working directory first and the root last; a directory is the
\* set of the names that exist in it.  The configured base directory lies
\* outside that list.

projectMarkers == {".aim", ".git", "package.json", "pyproject.toml", "Cargo.toml", "go.mod"}
maxDepth == 5

\* a loop that goes one directory further up
RECURSIVE findProjectRootFromSix(_, _, _)
findProjectRootFromSix(chain, currentDir, i) ==
  IF i > maxDepth THEN 0
  ELSE IF chain[currentDir] \cap projectMarkers # {} THEN currentDir
  ELSE IF currentDir = Len(chain) THEN 0
  ELSE findProjectRootFromSix(chain, currentDir + 1, i + 1)

\* the loop of findProjectRoot from its i-th round on: the index of the first
\* directory that holds a marker, 0 for null
RECURSIVE findProjectRootFrom(_, _, _)
findProjectRootFrom(chain, currentDir, i) ==
  IF i >= maxDepth THEN 0
  ELSE IF chain[currentDir] \cap projectMarkers # {} THEN currentDir
  ELSE IF currentDir = Len(chain) THEN 0
  ELSE findProjectRootFrom(chain, currentDir + 1, i + 1)

\* the number of directories the same loop looks into before it returns
RECURSIVE findProjectRootRounds(_, _, _)
findProjectRootRounds(chain, currentDir, i) ==
  IF i >= maxDepth THEN i
  ELSE IF chain[currentDir] \cap projectMarkers # {} THEN i + 1
  ELSE IF currentDir = Len(chain) THEN i + 1
  ELSE findProjectRootRounds(chain, currentDir + 1, i + 1)

findProjectRoot(chain) == findProjectRootFrom(chain, 1, 0)

\* <d>/.aim for the d-th directory of the list, and the base directory
AimDir(d) == [parent |-> d, name |-> ".aim"]
baseMemoryPath == [parent |-> 0, name |-> "<base>"]

\* path.join(dir, filename)
Join(dir, filename) == [dir |-> dir, name |-> filename]

\* what `context ? ... : ...` takes the first branch for
Truthy(v) == v # Undefined /\ v # ""

\* a file name that leaves the context out
FilenameShared(context) == "memory.jsonl"

Filename(context) ==
  IF Truthy(context) THEN "memory-" \o context \o ".jsonl" ELSE "memory.jsonl"

\* a resolver that takes the project directory whenever a project is found
getMemoryFilePathNoAimCheck(context, location, chain) ==
  LET filename == Filename(context)
      projectRoot == findProjectRoot(chain)
  IN IF location = "global" THEN Ok(Join(baseMemoryPath, filename))
     ELSE IF location = "project"
     THEN IF projectRoot # 0
          THEN Ok(Join(AimDir(projectRoot), filename))
          ELSE Throw("No project detected - cannot use project location", "")
     ELSE IF projectRoot # 0
     THEN Ok(Join(AimDir(projectRoot), filename))
     ELSE Ok(Join(baseMemoryPath, filename))

\* a resolver that lets an existing .aim directory win over location "global"
getMemoryFilePathProjectFirst(context, location, chain) ==
  LET filename == Filename(context)
      projectRoot == findProjectRoot(chain)
  IN IF projectRoot # 0 /\ ".aim" \in chain[projectRoot]
     THEN Ok(Join(AimDir(projectRoot), filename))
     ELSE IF location = "project"
     THEN IF projectRoot # 0
          THEN Ok(Join(AimDir(projectRoot), filename))
          ELSE Throw("No project detected - cannot use project location", "")
     ELSE Ok(Join(baseMemoryPath, filename))

\* a resolver that goes to the base directory whenever no location is given
getMemoryFilePathGlobalDefault(context, location, chain) ==
  LET filename == Filename(context)
      projectRoot == findProjectRoot(chain)
  IN IF location = "global" THEN Ok(Join(baseMemoryPath, filename))
     ELSE IF location = "project"
     THEN IF projectRoot # 0
          THEN Ok(Join(AimDir(projectRoot), filename))
          ELSE Throw("No project detected - cannot use project location", "")
     ELSE Ok(Join(baseMemoryPath, filename))

getMemoryFilePath(context, location, chain) ==
  LET filename == Filename(context)
      projectRoot == findProjectRoot(chain)
  IN IF location = "global" THEN Ok(Join(baseMemoryPath, filename))
     ELSE IF location = "project"
     THEN IF projectRoot # 0
          THEN Ok(Join(AimDir(projectRoot), filename))
          ELSE Throw("No project detected - cannot use project location", "")
     ELSE IF projectRoot # 0 /\ ".aim" \in chain[projectRoot]
     THEN Ok(Join(AimDir(projectRoot), filename))
     ELSE Ok(Join(baseMemoryPath, filename))

\* The disk: the list of directories, whether the base directory exists, and
\* the files that exist, by path.
NoFiles == [p \in {} |-> AbsentFile]

ReadFile(d, p) == IF p \in DOMAIN d.files THEN d.files[p] ELSE AbsentFile

DirExists(d, dir) ==
  IF dir = baseMemoryPath THEN d.base ELSE ".aim" \in d.chain[dir.parent]

\* a mkdir that creates nothing
MakeDirNothing(d, dir) == d

\* fs.mkdir(dir, { recursive: true })
MakeDir(d, dir) ==
  IF dir = baseMemoryPath THEN [d EXCEPT !.base = TRUE]
  ELSE [d EXCEPT !.chain[dir.parent] = @ \cup {".aim"}]

\* the disk of the specifications that follow one database file only
NoDisk == [chain |-> <<{}>>, base |-> TRUE, files |-> NoFiles]

\* fs.readdir(dir): the names of the files of a directory
ReadDir(d, dir) ==
  {p.name : p \in {q \in DOMAIN d.files : q.dir = dir /\ d.files[q].exists}}

\* String.prototype.endsWith
EndsWith(str, suffix) ==
  /\ Len(str) >= Len(suffix)
  /\ SubSeq(str, Len(str) - Len(suffix) + 1, Len(str)) = suffix

\* String.prototype.replace with a string pattern: the first occurrence of
\* the pattern is replaced, wherever in the string it is
IndexOf(str, pattern) ==
  LET at == {i \in 1..(Len(str) - Len(pattern) + 1) :
               SubSeq(str, i, i + Len(pattern) - 1) = pattern}
  IN IF at = {} THEN 0 ELSE CHOOSE i \in at : \A j \in at : i <= j

Replace(str, pattern, replacement) ==
  LET i == IndexOf(str, pattern) IN
  IF i = 0 THEN str
  ELSE SubSeq(str, 1, i - 1) \o replacement \o SubSeq(str, i + Len(pattern), Len(str))

\* the UTF-16 code units of the characters file names are made of here
CodeUnit(c) ==
  CASE c = "-" -> 45 [] c = "." -> 46 [] c = "Z" -> 90 [] c = "a" -> 97
    [] c = "b" -> 98 [] c = "d" -> 100 [] c = "e" -> 101 [] c = "f" -> 102
    [] c = "j" -> 106 [] c = "k" -> 107 [] c = "l" -> 108 [] c = "m" -> 109
    [] c = "n" -> 110 [] c = "o" -> 111 [] c = "r" -> 114 [] c = "s" -> 115
    [] c = "t" -> 116 [] c = "u" -> 117 [] c = "w" -> 119 [] c = "x" -> 120
    [] c = "y" -> 121

\* the order of Array.prototype.sort without a compare function: by code
\* units, a proper prefix before the longer string
RECURSIVE Precedes(_, _)
Precedes(s, t) ==
  IF t = "" THEN FALSE
  ELSE IF s = "" THEN TRUE
  ELSE LET a == CodeUnit(SubSeq(s, 1, 1))
           b == CodeUnit(SubSeq(t, 1, 1))
       IN IF a # b THEN a < b
          ELSE Precedes(SubSeq(s, 2, Len(s)), SubSeq(t, 2, Len(t)))

RECURSIVE Insert(_, _)
Insert(sorted, x) ==
  IF sorted = <<>> THEN <<x>>
  ELSE IF Precedes(x, Head(sorted)) THEN <<x>> \o sorted
  ELSE <<Head(sorted)>> \o Insert(Tail(sorted), x)

RECURSIVE Sort(_)
Sort(s) == IF s = <<>> THEN <<>> ELSE Insert(Sort(Tail(s)), Head(s))

\* the names of a directory in an order readdir may give them in
RECURSIVE Listing(_)
Listing(names) ==
  IF names = {} THEN <<>>
  ELSE LET n == CHOOSE x \in names : TRUE IN <<n>> \o Listing(names \ {n})

\* files.filter(...).map(...).sort() of listDatabases
DatabaseNames(files) ==
  LET IsStore(file) == EndsWith(file, ".jsonl")
      Name(file) ==
        IF file = "memory.jsonl" THEN "default"
        ELSE Replace(Replace(file, "memory-", ""), ".jsonl", "")
      kept == SelectSeq(files, IsStore)
  IN Sort([i \in 1..Len(kept) |-> Name(kept[i])])

\* a listing that reports the project location whenever a project is found
listDatabasesRootOnly(d) ==
  LET projectRoot == findProjectRoot(d.chain)
      aimDir == AimDir(projectRoot)
      detected == projectRoot # 0
  IN [project_databases |->
        IF detected THEN DatabaseNames(Listing(ReadDir(d, aimDir))) ELSE <<>>,
      global_databases |->
        IF DirExists(d, baseMemoryPath)
        THEN DatabaseNames(Listing(ReadDir(d, baseMemoryPath)))
        ELSE <<>>,
      current_location |->
        IF projectRoot = 0 THEN "global (no project detected)"
        ELSE IF detected THEN "project (.aim directory detected)"
        ELSE "global (no .aim directory in project)"]

listDatabases(d) ==
  LET projectRoot == findProjectRoot(d.chain)
      aimDir == AimDir(projectRoot)
      detected == projectRoot # 0 /\ DirExists(d, aimDir)
  IN [project_databases |->
        IF detected THEN DatabaseNames(Listing(ReadDir(d, aimDir))) ELSE <<>>,
      global_databases |->
        IF DirExists(d, baseMemoryPath)
        THEN DatabaseNames(Listing(ReadDir(d, baseMemoryPath)))
        ELSE <<>>,
      current_location |->
        IF projectRoot = 0 THEN "global (no project detected)"
        ELSE IF detected THEN "project (.aim directory detected)"
        ELSE "global (no .aim directory in project)"]

\* The text of a file is its lines joined by "\n".  The number of characters
\* of the JSON text of a record whose values are strings, but for
\* observations, a list of strings; a line that is no object counts for what
\* its text is at the least.
Quoted(str) == Len(str) + 2

RECURSIVE SumQuoted(_)
SumQuoted(arr) ==
  IF arr = <<>> THEN 0 ELSE Quoted(Head(arr)) + SumQuoted(Tail(arr))

ArrayLen(arr) == 2 + SumQuoted(arr) + (IF arr = <<>> THEN 0 ELSE Len(arr) - 1)

RECURSIVE MembersLen(_, _)
MembersLen(o, keys) ==
  IF keys = {} THEN 0
  ELSE LET k == CHOOSE k \in keys : TRUE
       IN Quoted(k) + 1
            + (IF k = "observations" THEN ArrayLen(o[k]) ELSE Quoted(o[k]))
            + MembersLen(o, keys \ {k})

TextLen(line) ==
  CASE line.kind = "object" ->
         LET n == Cardinality(DOMAIN line.val)
         IN 2 + MembersLen(line.val, DOMAIN line.val) + (IF n = 0 THEN 0 ELSE n - 1)
    [] line.kind = "blank" -> 0
    [] line.kind = "null" -> 4
    [] OTHER -> 1

RECURSIVE JoinedLen(_)
JoinedLen(lines) ==
  IF lines = <<>> THEN 0
  ELSE IF Len(lines) = 1 THEN TextLen(lines[1])
  ELSE TextLen(Head(lines)) + 1 + JoinedLen(Tail(lines))

\* A write of the text of `new` at offset 0 of a file that holds the text of
\* `old` (the descriptor was opened before `old` was written): the characters
\* of old past the end of new stay.  They begin at the newline after a line
\* of old, or inside a line of old: then they run on from the last line of
\* new, which is no JSON text any more.
Overlay(old, new) ==
  LET n == JoinedLen(new)
      End(j) == JoinedLen(SubSeq(old, 1, j))
  IN IF JoinedLen(old) <= n THEN new
     ELSE LET j == CHOOSE j \in 1..Len(old) :
                     n <= End(j) /\ (j = 1 \/ End(j - 1) < n)
              rest == SubSeq(old, j + 1, Len(old))
          IN IF n = End(j) THEN new \o rest
             ELSE SubSeq(new, 1, Len(new) - 1) \o <<InvalidLine>> \o rest

\* ------------------------------------------------------- the state machine

VARIABLES
  file,   \* the backing file of the database the calls resolve to
  last,   \* the call whose response is pending: its input, the file before it
          \* and what it returned; op = "none" between calls
  disk,   \* the directories and the files by path, where paths are resolved
  procs   \* the handler invocations in flight, where calls run in steps

vars == <<file, last, disk, procs>>

NoCall == [op |-> "none", arg |-> <<>>, ret |-> Ok(<<>>), pre |-> AbsentFile]

\* A handler invocation: where it is (pc), the request, the path loadGraph
\* resolved, the path and the lines saveGraph resolved and built, the
\* response, the disk when the request came in; and, for the order of
\* overlapping calls, whether it read before any other call opened a file for
\* writing (cleanLoad) and which calls had written when it wrote (wroteAfter).
Procs == {1, 2}

NoPath == [dir |-> baseMemoryPath, name |-> ""]

Idle ==
  [pc |-> "idle", op |-> "none", arg |-> <<>>, context |-> Undefined,
   location |-> Undefined, path |-> NoPath, savePath |-> NoPath, data |-> <<>>,
   ret |-> Ok(<<>>), pre |-> NoDisk, cleanLoad |-> FALSE, wroteAfter |-> {}]

NoProcs == [p \in Procs |-> Idle]

\* inputs of the calls
EntityInputs ==
  {[name |-> n, entityType |-> t, observations |-> o] :
     n \in Names, t \in EntityTypes, o \in ObservationLists}
RelationInputs ==
  {[from |-> a, to |-> b, relationType |-> t] :
     a \in Names, b \in Names, t \in RelationTypes}
ObservationInputs ==
  {[entityName |-> n, contents |-> c] :
     n \in Names, c \in ObservationLists}
DeletionInputs ==
  {[entityName |-> n, observations |-> c] :
     n \in Names, c \in ObservationLists}

\* files the store did not write: a foreign JSONL file, text that is no JSON,
\* a marker with one more field, a marker file edited by hand, a database
\* with records of another type between its own
ForeignRecord == ObjectLine([foo |-> "bar"])
MarkerPlus == ObjectLine([type |-> "_aim", source |-> "mcp-knowledge-graph", version |-> "2"])
NoteRecord == ObjectLine([type |-> "note", text |-> "x"])
MarkerOnlyFile == FileOf(<<Stringify(FILE_MARKER)>>)
OtherFiles ==
  { FileOf(<<>>),
    FileOf(<<BlankLine, Stringify(FILE_MARKER), BlankLine>>),
    FileOf(<<Stringify(FILE_MARKER), NoteRecord, Stringify(FILE_MARKER)>>),
    FileOf(<<Stringify(FILE_MARKER),
             EntityRecord([name |-> "a", entityType |-> "t", observations |-> <<>>]),
             NoteRecord,
             RelationRecord([from |-> "a", to |-> "a", relationType |-> "r"]),
             Stringify(FILE_MARKER), ScalarLine>>),
    FileOf(<<ForeignRecord, ForeignRecord>>),
    FileOf(<<BlankLine, ForeignRecord>>),
    FileOf(<<InvalidLine>>),
    FileOf(<<NullLine>>),
    FileOf(<<ScalarLine>>),
    FileOf(<<MarkerPlus, ForeignRecord>>),
    FileOf(<<Stringify(FILE_MARKER), InvalidLine>>) }

\* a database that does not exist yet, or one that holds the marker only
Init ==
  /\ file \in {AbsentFile, MarkerOnlyFile}
  /\ last = NoCall
  /\ disk = NoDisk
  /\ procs = NoProcs

\* a path at which something else put a file
InitOther ==
  /\ file \in OtherFiles
  /\ last = NoCall
  /\ disk = NoDisk
  /\ procs = NoProcs

\* the number of entities, observations and relations of a graph
RECURSIVE SumObs(_)
SumObs(entities) ==
  IF entities = <<>> THEN 0
  ELSE Len(Head(entities).observations) + SumObs(Tail(entities))

GraphSize(g) == Len(g.entities) + SumObs(g.entities) + Len(g.relations)

\* the stored graph stays within the cap
WithinCaps(f) ==
  LET g == loadGraph(f) IN g.ok => GraphSize(g.val) <= MaxSize

\* one call of the tool handler: the operation runs to its end
Call(op, arg, out) ==
  /\ last.op = "none"
  /\ WithinCaps(out.file)
  /\ file' = out.file
  /\ last' = [op |-> op, arg |-> arg, ret |-> out.ret, pre |-> file]
  /\ UNCHANGED <<disk, procs>>

CreateEntities ==
  \E entities \in Batches(EntityInputs) :
    Call("createEntities", entities, createEntities(entities, file))

CreateRelations ==
  \E relations \in Batches(RelationInputs) :
    Call("createRelations", relations, createRelations(relations, file))

AddObservations ==
  \E observations \in Batches(ObservationInputs) :
    Call("addObservations", observations, addObservations(observations, file))

DeleteEntities ==
  \E entityNames \in Batches(Names) :
    Call("deleteEntities", entityNames, deleteEntities(entityNames, file))

DeleteObservations ==
  \E deletions \in Batches(DeletionInputs) :
    Call("deleteObservations", deletions, deleteObservations(deletions, file))

DeleteRelations ==
  \E relations \in Batches(RelationInputs) :
    Call("deleteRelations", relations, deleteRelations(relations, file))

ReadGraph == Call("readGraph", <<>>, readGraph(file))

SearchNodes ==
  \E query \in Queries : Call("searchNodes", query, searchNodes(query, file))

OpenNodes ==
  \E names \in Batches(Names) :
    Call("openNodes", names, openNodes(names, file))

\* the handler returns the response; the next request can be served
Reply ==
  /\ last.op # "none"
  /\ last' = NoCall
  /\ UNCHANGED <<file, disk, procs>>

Next ==
  \/ CreateEntities
  \/ CreateRelations
  \/ AddObservations
  \/ DeleteEntities
  \/ DeleteObservations
  \/ DeleteRelations
  \/ ReadGraph
  \/ SearchNodes
  \/ OpenNodes
  \/ Reply

Spec == Init /\ [][Next]_vars

SpecOther == InitOther /\ [][Next]_vars

\* --------------------------------------------- the graph store on its own
\* saveGraph of a graph held in memory, then loadGraph of the file it wrote.

\* entities as a caller passes them and as loadGraph leaves them in memory
\* (the parsed record, which keeps its type property)
InMemoryEntities == EntityInputs \cup {Spread([type |-> "entity"], e) : e \in EntityInputs}
InMemoryRelations == RelationInputs \cup {Spread([type |-> "relation"], r) : r \in RelationInputs}

Graphs ==
  {g \in [entities : Batches(InMemoryEntities), relations : Batches(InMemoryRelations)] :
     GraphSize(g) <= MaxSize}

StoreInit ==
  /\ file = AbsentFile
  /\ last = NoCall
  /\ disk = NoDisk
  /\ procs = NoProcs

StoreSave ==
  /\ last.op = "none"
  /\ \E graph \in Graphs :
       /\ file' = saveGraph(graph)
       /\ last' = [op |-> "saveGraph", arg |-> graph, ret |-> Ok(<<>>), pre |-> file]
  /\ UNCHANGED <<disk, procs>>

StoreLoad ==
  /\ last.op = "saveGraph"
  /\ last' = [op |-> "loadGraph", arg |-> last.arg, ret |-> loadGraph(file), pre |-> file]
  /\ UNCHANGED <<file, disk, procs>>

StoreNext == StoreSave \/ StoreLoad

SpecStore == StoreInit /\ [][StoreNext]_vars

\* ------------------------------------------------------ the queries alone
\* searchNodes and openNodes on a stored graph whose names, types and
\* observations differ in case and overlap as substrings.

SearchNames == {"a", "Ab", "bA"}
SearchTypes == {"t", "Ta"}
SearchObservationLists == {<<>>, <<"x">>, <<"aX">>, <<"x", "aX">>}
SearchQueries == {"", "a", "A", "b", "AB", "ba", "x", "AX", "T", "ta", "tt"}
OpenNames == {"a", "A", "Ab", "ab", "bA"}

SearchEntities ==
  {[name |-> n, entityType |-> t, observations |-> o] :
     n \in SearchNames, t \in SearchTypes, o \in SearchObservationLists}

SearchGraphs ==
  {g \in [entities : Batches(SearchEntities), relations : Batches(RelationInputs)] :
     GraphSize(g) <= MaxSize}

QueryInit ==
  /\ file \in {saveGraph(g) : g \in SearchGraphs}
  /\ last = NoCall
  /\ disk = NoDisk
  /\ procs = NoProcs

SearchStored ==
  \E query \in SearchQueries : Call("searchNodes", query, searchNodes(query, file))

OpenStored ==
  \E names \in Batches(OpenNames) :
    Call("openNodes", names, openNodes(names, file))

QueryNext == SearchStored \/ OpenStored \/ Reply

SpecQuery == QueryInit /\ [][QueryNext]_vars

\* ------------------------------------------------- addObservations alone
\* addObservations on stored entities that hold observations already, with
\* entries that repeat stored strings, repeat each other and bring new ones.

StoredObservationLists == {<<>>, <<"x">>, <<"y", "x">>}
ContentsLists == {<<>>, <<"x">>, <<"y">>, <<"y", "z">>, <<"z", "x">>, <<"z", "z">>}

ObservedEntities ==
  {[name |-> n, entityType |-> "t", observations |-> o] :
     n \in Names, o \in StoredObservationLists}

ObservationEntries ==
  {[entityName |-> n, contents |-> c] : n \in Names, c \in ContentsLists}

ObservationsInit ==
  /\ file \in {saveGraph([entities |-> es, relations |-> <<>>]) :
                 es \in Batches(ObservedEntities)}
  /\ last = NoCall
  /\ disk = NoDisk
  /\ procs = NoProcs

AddObservationsStored ==
  /\ last.op = "none"
  /\ \E observations \in Batches(ObservationEntries) :
       LET out == addObservations(observations, file)
       IN /\ file' = out.file
          /\ last' = [op |-> "addObservations", arg |-> observations,
                      ret |-> out.ret, pre |-> file]
  /\ UNCHANGED <<disk, procs>>

ObservationsNext == AddObservationsStored \/ Reply

SpecObservations == ObservationsInit /\ [][ObservationsNext]_vars

\* ----------------------------------------------- deleteObservations alone
\* deleteObservations on stored entities whose lists repeat strings and hold
\* strings the entries do not name, with entries that name strings in another
\* order, strings no entity has, and entities that are not stored.

DeletionStoredLists == {<<>>, <<"x">>, <<"x", "y", "x">>, <<"y", "z">>}
DeletionLists == {<<>>, <<"x">>, <<"z", "x">>, <<"w">>}

DeletionEntities ==
  {[name |-> n, entityType |-> "t", observations |-> o] :
     n \in Names, o \in DeletionStoredLists}

DeletionEntries ==
  {[entityName |-> n, observations |-> c] : n \in Names, c \in DeletionLists}

DeletionsInit ==
  /\ file \in {saveGraph([entities |-> es, relations |-> rs]) :
                 es \in Batches(DeletionEntities),
                 rs \in {<<>>, <<[from |-> "a", to |-> "Ab", relationType |-> "r"]>>}}
  /\ last = NoCall
  /\ disk = NoDisk
  /\ procs = NoProcs

DeleteObservationsStored ==
  /\ last.op = "none"
  /\ \E deletions \in Batches(DeletionEntries) :
       LET out == deleteObservations(deletions, file)
       IN /\ file' = out.file
          /\ last' = [op |-> "deleteObservations", arg |-> deletions,
                      ret |-> out.ret, pre |-> file]
  /\ UNCHANGED <<disk, procs>>

DeletionsNext == DeleteObservationsStored \/ Reply

SpecDeletions == DeletionsInit /\ [][DeletionsNext]_vars

\* ------------------------------------------------------ the resolver alone
\* getMemoryFilePath on lists of directories of every length up to MaxLevels.

MaxLevels == 6

Directories == {{}, {".aim"}, {".git"}, {"go.mod", ".aim"}, {"README.md"}}
Contexts == {Undefined, "", "work"}
Locations == {Undefined, "global", "project"}

Chains == UNION {[1..n -> Directories] : n \in 1..MaxLevels}

PathInit ==
  /\ file = AbsentFile
  /\ last = NoCall
  /\ disk \in {[chain |-> c, base |-> TRUE, files |-> NoFiles] : c \in Chains}
  /\ procs = NoProcs

Resolve ==
  /\ last.op = "none"
  /\ \E context \in Contexts, location \in Locations :
       last' = [op |-> "getMemoryFilePath",
                arg |-> [context |-> context, location |-> location],
                ret |-> getMemoryFilePath(context, location, disk.chain),
                pre |-> AbsentFile]
  /\ UNCHANGED <<file, disk, procs>>

PathNext == Resolve \/ Reply

SpecPath == PathInit /\ [][PathNext]_vars

\* ------------------------------------------------- findProjectRoot alone
\* findProjectRoot on lists of directories of every length up to MaxLevels,
\* of which at most two hold something: each marker alone, a file that is no
\* marker, two markers together.

RootDirectories ==
  {{}, {".aim"}, {".git"}, {"package.json"}, {"pyproject.toml"}, {"Cargo.toml"},
   {"go.mod"}, {"README.md"}, {".git", "package.json"}}

RootChains ==
  {[d \in 1..n |-> IF d = i THEN a ELSE IF d = j THEN b ELSE {}] :
     <<n, i, j>> \in {t \in (1..MaxLevels) \X (1..MaxLevels) \X (1..MaxLevels) :
                        t[2] <= t[1] /\ t[3] <= t[1]},
     a \in RootDirectories, b \in RootDirectories}

RootInit ==
  /\ file = AbsentFile
  /\ last = NoCall
  /\ disk \in {[chain |-> c, base |-> TRUE, files |-> NoFiles] : c \in RootChains}
  /\ procs = NoProcs

FindProjectRoot ==
  /\ last.op = "none"
  /\ last' = [op |-> "findProjectRoot",
              arg |-> <<>>,
              ret |-> Ok([root |-> findProjectRoot(disk.chain),
                          rounds |-> findProjectRootRounds(disk.chain, 1, 0)]),
              pre |-> AbsentFile]
  /\ UNCHANGED <<file, disk, procs>>

RootNext == FindProjectRoot \/ Reply

SpecRoot == RootInit /\ [][RootNext]_vars

\* --------------------------------------------------- calls, step by step
\* A call of the handler is a chain of steps, each run to its next await:
\* loadGraph resolves the path; readFile delivers and the operation runs on
\* to saveGraph, which resolves the path again and builds the lines; mkdir;
\* writeFile opens the file, which empties it; writeFile writes the text.

\* the request arrives: loadGraph calls getMemoryFilePath
Begin(p, op, arg, context, location) ==
  /\ procs[p].pc = "idle"
  /\ LET filePath == getMemoryFilePath(context, location, disk.chain)
         me == [Idle EXCEPT !.op = op, !.arg = arg, !.context = context,
                            !.location = location, !.pre = disk]
     IN procs' = [procs EXCEPT ![p] =
                   IF filePath.ok
                   THEN [me EXCEPT !.pc = "read", !.path = filePath.val]
                   ELSE [me EXCEPT !.pc = "done", !.ret = filePath]]
  /\ UNCHANGED <<file, last, disk>>

\* the call has opened its file for writing
Opened(q) == procs[q].pc = "write" \/ (procs[q].pc = "done" /\ procs[q].savePath # NoPath)

\* readFile delivers; the operation runs; a mutation goes on into saveGraph
Load(p) ==
  /\ procs[p].pc = "read"
  /\ LET me == procs[p]
         out == Apply(me.op, me.arg, ReadFile(disk, me.path))
         filePath == getMemoryFilePath(me.context, me.location, disk.chain)
     IN procs' = [procs EXCEPT ![p] =
                   IF me.op \in Mutations /\ out.ret.ok
                   THEN IF filePath.ok
                        THEN [me EXCEPT !.pc = "mkdir", !.savePath = filePath.val,
                                        !.data = out.file.lines, !.ret = out.ret,
                                        !.cleanLoad = \A q \in Procs \ {p} : ~Opened(q)]
                        ELSE [me EXCEPT !.pc = "done", !.ret = filePath]
                   ELSE [me EXCEPT !.pc = "done", !.ret = out.ret]]
  /\ UNCHANGED <<file, last, disk>>

\* fs.mkdir(path.dirname(filePath), { recursive: true })
Mkdir(p) ==
  /\ procs[p].pc = "mkdir"
  /\ disk' = MakeDir(disk, procs[p].savePath.dir)
  /\ procs' = [procs EXCEPT ![p].pc = "open"]
  /\ UNCHANGED <<file, last>>

\* fs.writeFile opens the file with flag "w": it exists and is empty
Open(p) ==
  /\ procs[p].pc = "open"
  /\ IF DirExists(disk, procs[p].savePath.dir)
     THEN /\ disk' = [disk EXCEPT !.files = (procs[p].savePath :> FileOf(<<>>)) @@ @]
          /\ procs' = [procs EXCEPT ![p].pc = "write"]
     ELSE /\ procs' = [procs EXCEPT ![p].pc = "done", ![p].ret = Throw("ENOENT", "")]
          /\ UNCHANGED disk
  /\ UNCHANGED <<file, last>>

\* fs.writeFile writes the text from the start of the file
Write(p) ==
  /\ procs[p].pc = "write"
  /\ LET me == procs[p]
         written == Overlay(ReadFile(disk, me.savePath).lines, me.data)
     IN /\ disk' = [disk EXCEPT !.files = (me.savePath :> FileOf(written)) @@ @]
        /\ procs' = [procs EXCEPT ![p].pc = "done",
                                  ![p].wroteAfter =
                                    {q \in Procs \ {p} :
                                       procs[q].pc = "done" /\ procs[q].savePath # NoPath}]
  /\ UNCHANGED <<file, last>>

\* the handler returns the response
Respond(p) ==
  /\ procs[p].pc = "done"
  /\ procs' = [procs EXCEPT ![p] = Idle]
  /\ UNCHANGED <<file, last, disk>>

\* the handler of aim_memory_list_stores: it takes no context and no location
ListDatabases(p) ==
  /\ procs[p].pc = "idle"
  /\ procs' = [procs EXCEPT ![p] =
                [Idle EXCEPT !.pc = "done", !.op = "listDatabases",
                             !.ret = Ok(listDatabases(disk)), !.pre = disk]]
  /\ UNCHANGED <<file, last, disk>>

\* ------------------------------------------- calls by context and location
\* One call after another, listings among them, with and without context and
\* location, in working directories inside and outside a project, with and
\* without .aim.

DiskChains ==
  { <<{}>>, <<{".git"}>>, <<{".aim"}>>, <<{}, {".git", ".aim"}>>,
    <<{".git"}, {".aim"}>>, <<{}, {}, {}, {}, {}, {".git", ".aim"}>> }

DiskContexts == {Undefined, "work"}

TheEntity == [name |-> "a", entityType |-> "t", observations |-> <<>>]
TheRelation == [from |-> "a", to |-> "a", relationType |-> "r"]

DiskInit ==
  /\ file = AbsentFile
  /\ last = NoCall
  /\ disk \in {[chain |-> c, base |-> b, files |-> NoFiles] :
                 c \in DiskChains, b \in BOOLEAN}
  /\ procs = NoProcs

Request(p) ==
  \E context \in DiskContexts, location \in Locations :
    \/ Begin(p, "createEntities", <<TheEntity>>, context, location)
    \/ Begin(p, "createEntities", <<>>, context, location)
    \/ Begin(p, "createRelations", <<>>, context, location)
    \/ Begin(p, "addObservations", <<[entityName |-> "a", contents |-> <<>>]>>, context, location)
    \/ Begin(p, "deleteEntities", <<"a">>, context, location)
    \/ Begin(p, "deleteObservations", <<[entityName |-> "a", observations |-> <<"x">>]>>, context, location)
    \/ Begin(p, "deleteRelations", <<TheRelation>>, context, location)
    \/ Begin(p, "readGraph", <<>>, context, location)
    \/ Begin(p, "searchNodes", "a", context, location)
    \/ Begin(p, "openNodes", <<"a">>, context, location)

DiskNext ==
  \/ Request(1)
  \/ ListDatabases(1)
  \/ Load(1)
  \/ Mkdir(1)
  \/ Open(1)
  \/ Write(1)
  \/ Respond(1)

SpecDisk == DiskInit /\ [][DiskNext]_vars

\* ------------------------------------------------------ overlapping calls
\* Two calls on the database of the base directory, each run once, their
\* steps in any order.

OverlapEntities ==
  { <<TheEntity>>,
    <<[name |-> "Ab", entityType |-> "t", observations |-> <<"x">>]>>,
    <<TheEntity, [name |-> "Ab", entityType |-> "u", observations |-> <<>>]>> }

OverlapInit ==
  /\ file = AbsentFile
  /\ last = NoCall
  /\ disk \in {NoDisk,
                [NoDisk EXCEPT !.files =
                   Join(baseMemoryPath, "memory.jsonl")
                     :> saveGraph([entities |-> <<TheEntity>>, relations |-> <<>>])]}
  /\ procs = NoProcs

OverlapRequest(p) ==
  \/ \E entities \in OverlapEntities :
       Begin(p, "createEntities", entities, Undefined, Undefined)
  \/ Begin(p, "deleteEntities", <<"a">>, Undefined, Undefined)
  \/ Begin(p, "readGraph", <<>>, Undefined, Undefined)

OverlapNext ==
  \E p \in Procs :
    \/ OverlapRequest(p)
    \/ Load(p)
    \/ Mkdir(p)
    \/ Open(p)
    \/ Write(p)

SpecOverlap == OverlapInit /\ [][OverlapNext]_vars

\* ------------------------------------------- overlapping calls in a project
\* Two calls, each run once, their steps in any order, in a project that has
\* no .aim directory yet or has one, with and without a location.

RelocateInit ==
  /\ file = AbsentFile
  /\ last = NoCall
  /\ disk \in {[chain |-> c, base |-> TRUE, files |-> NoFiles] :
                 c \in {<<{".git"}>>, <<{".aim"}>>}}
  /\ procs = NoProcs

RelocateRequest(p) ==
  \E location \in Locations :
    \/ Begin(p, "createEntities", <<TheEntity>>, Undefined, location)
    \/ Begin(p, "deleteEntities", <<"a">>, Undefined, location)

RelocateNext ==
  \E p \in Procs :
    \/ RelocateRequest(p)
    \/ Load(p)
    \/ Mkdir(p)
    \/ Open(p)
    \/ Write(p)

SpecRelocate == RelocateInit /\ [][RelocateNext]_vars

\* ---------------------------------------------------- an interrupted save
\* Calls on the database of the base directory, one after another, until
\* the process dies while writeFile writes; then the calls of the process
\* started next.

\* the process dies inside fs.writeFile after the file was opened: the file
\* holds the first characters of the text, which end at the end of a line
\* or inside the next one
Crash(p) ==
  /\ procs[p].pc = "write"
  /\ \E k \in 0..(Len(procs[p].data) - 1), torn \in BOOLEAN :
       LET me == procs[p]
           prefix == SubSeq(me.data, 1, k) \o (IF torn THEN <<InvalidLine>> ELSE <<>>)
           written == Overlay(ReadFile(disk, me.savePath).lines, prefix)
       IN disk' = [disk EXCEPT !.files = (me.savePath :> FileOf(written)) @@ @]
  /\ procs' = [procs EXCEPT ![p].pc = "crashed"]
  /\ UNCHANGED <<file, last>>

CrashRequest(p) ==
  \/ Begin(p, "createEntities", <<TheEntity>>, Undefined, Undefined)
  \/ Begin(p, "createEntities",
           <<[name |-> "Ab", entityType |-> "t", observations |-> <<"x">>]>>,
           Undefined, Undefined)
  \/ Begin(p, "createRelations", <<TheRelation>>, Undefined, Undefined)

\* a request to the process started after the crash
Restarted(p) ==
  /\ \E q \in Procs \ {p} : procs[q].pc = "crashed"
  /\ \/ Begin(p, "readGraph", <<>>, Undefined, Undefined)
     \/ Begin(p, "createEntities", <<TheEntity>>, Undefined, Undefined)

CrashNext ==
  \/ CrashRequest(1)
  \/ Load(1)
  \/ Mkdir(1)
  \/ Open(1)
  \/ Write(1)
  \/ Respond(1)
  \/ Crash(1)
  \/ Restarted(2)
  \/ Load(2)
  \/ Mkdir(2)
  \/ Open(2)
  \/ Write(2)

SpecCrash == OverlapInit /\ [][CrashNext]_vars

\* -------------------------------------------------------- listing databases
\* listDatabases in working directories of every kind, and on directories
\* that hold store files, files of other names, and files whose names repeat
\* a part of the store's file names.

FileNames ==
  {"memory.jsonl", "memory-work.jsonl", "memory-Zed.jsonl",
   "memory-a.jsonl.b.jsonl", "memory-work.jsonl.bak", "notes.txt"}

ListChains == {<<{".aim"}>>, <<{}, {".git", ".aim"}>>}

\* the files of the given names in a directory, each holding the marker
FilesIn(dir, names) ==
  [p \in {Join(dir, n) : n \in names} |-> MarkerOnlyFile]

ListInit ==
  /\ file = AbsentFile
  /\ last = NoCall
  /\ disk \in
       {[chain |-> c, base |-> b, files |-> NoFiles] :
          c \in RootChains, b \in BOOLEAN}
       \cup
       {[chain |-> c, base |-> TRUE,
         files |-> FilesIn(AimDir(findProjectRoot(c)), inProject)
                     @@ FilesIn(baseMemoryPath, inBase)] :
          c \in ListChains, inProject \in SUBSET FileNames, inBase \in SUBSET FileNames}
  /\ procs = NoProcs

ListNext == ListDatabases(1) \/ Respond(1)

SpecList == ListInit /\ [][ListNext]_vars

\* ------------------------------------------------------- creating databases
\* Calls and listings on a disk that holds no database yet: outside a
\* project, in a project without .aim and in one with .aim, with and without
\* the base directory, for the context-less database and three named ones.

CreateChains == {<<{}>>, <<{".git"}>>, <<{".aim"}>>}
CreateContexts == {Undefined, "work", "a.jsonl.b", "default"}

CreateInit ==
  /\ file = AbsentFile
  /\ last = NoCall
  /\ disk \in {[chain |-> c, base |-> b, files |-> NoFiles] :
                 c \in CreateChains, b \in BOOLEAN}
  /\ procs = NoProcs

CreateRequest(p) ==
  \E context \in CreateContexts, location \in Locations :
    \/ Begin(p, "createEntities", <<TheEntity>>, context, location)
    \/ Begin(p, "addObservations", <<[entityName |-> "a", contents |-> <<>>]>>, context, location)
    \/ Begin(p, "readGraph", <<>>, context, location)

CreateNext ==
  \/ CreateRequest(1)
  \/ ListDatabases(1)
  \/ Load(1)
  \/ Mkdir(1)
  \/ Open(1)
  \/ Write(1)
  \/ Respond(1)

SpecCreate == CreateInit /\ [][CreateNext]_vars

\* ------------------------------------------------------------------ claims

\* the graph a load of the backing file yields now, and before the last call
Stored == loadGraph(file)
Before == loadGraph(last.pre)

\* what the spec says of an entity and of a relation
EntityView(e) == [name |-> e.name, entityType |-> e.entityType, observations |-> e.observations]
RelationView(r) == [from |-> r.from, to |-> r.to, relationType |-> r.relationType]
EntitySet(g) == {EntityView(g.entities[i]) : i \in 1..Len(g.entities)}
RelationSet(g) == {RelationView(g.relations[i]) : i \in 1..Len(g.relations)}
NameSet(entities) == {entities[i].name : i \in 1..Len(entities)}

UniqueNames(entities) ==
  \A i, j \in 1..Len(entities) : entities[i].name = entities[j].name => i = j
UniqueTriples(relations) ==
  \A i, j \in 1..Len(relations) : SameTriple(relations[i], relations[j]) => i = j
NoRepeat(s) == \A i, j \in 1..Len(s) : s[i] = s[j] => i = j

\* C1: in every reachable state no two entities of the stored graph have the
\* same name.
C1_UniqueEntityNames == Stored.ok => UniqueNames(Stored.val.entities)

\* C2: in every reachable state no two relations of the stored graph agree on
\* from, to and relationType.
C2_UniqueRelationTriples == Stored.ok => UniqueTriples(Stored.val.relations)

\* the first non-blank line of a file that has one
HasRecord(f) == f.exists /\ \E i \in 1..Len(f.lines) : NonBlank(f.lines[i])
FirstRecord(f) == SelectSeq(f.lines, NonBlank)[1]

\* the line is a JSON object whose type and source are the marker's
CarriesMarker(line) ==
  /\ line.kind = "object"
  /\ Get(line.val, "type") = FILE_MARKER.type
  /\ Get(line.val, "source") = FILE_MARKER.source

\* C3 as stated: when the first non-blank line of the file is not the marker
\* record, every operation fails and leaves the file as it was.
C3_ForeignFileRefused ==
  (last.op # "none" /\ HasRecord(last.pre)
     /\ FirstRecord(last.pre) # Stringify(FILE_MARKER))
  => (~last.ret.ok /\ file = last.pre)

\* C3 amended: when the first non-blank line of the file is not a JSON object
\* with type "_aim" and source "mcp-knowledge-graph", every operation fails
\* and leaves the file as it was.
C3_UnmarkedFileRefused ==
  (last.op # "none" /\ HasRecord(last.pre) /\ ~CarriesMarker(FirstRecord(last.pre)))
  => (~last.ret.ok /\ file = last.pre)

\* a mutation was called on a foreign JSONL file and was refused
C3_Witness ==
  /\ last.op = "createEntities"
  /\ Len(last.arg) > 0
  /\ last.pre = FileOf(<<ForeignRecord, ForeignRecord>>)
  /\ last.ret.err = "MarkerError"
  /\ file = last.pre

\* the entries of an addObservations batch that name no entity of the graph
MissingEntries(observations, entities) ==
  {i \in 1..Len(observations) : ~HasName(entities, observations[i].entityName)}

\* C4: when an entry of an addObservations batch names an entity that is not
\* in the loaded graph, the call fails with the not-found error naming the
\* first such entity, and the file is what it was before the call.
C4_AddObservationsAllOrNothing ==
  (last.op = "addObservations" /\ Before.ok
     /\ MissingEntries(last.arg, Before.val.entities) # {})
  => LET missing == MissingEntries(last.arg, Before.val.entities)
         first == CHOOSE i \in missing : \A j \in missing : i <= j
     IN /\ ~last.ret.ok
        /\ last.ret.err = "NotFound"
        /\ last.ret.about = last.arg[first].entityName
        /\ file = last.pre
        /\ Stored = Before

\* the batch failed on its second entry after its first entry named a stored
\* entity and brought an observation that entity did not have
C4_Witness ==
  /\ last.op = "addObservations"
  /\ Before.ok
  /\ Len(last.arg) = 2
  /\ HasName(Before.val.entities, last.arg[1].entityName)
  /\ \E c \in Range(last.arg[1].contents) :
       ~ArrIncludes(Before.val.entities[FindEntity(Before.val.entities,
                      last.arg[1].entityName)].observations, c)
  /\ ~HasName(Before.val.entities, last.arg[2].entityName)
  /\ ~last.ret.ok

\* C5: in every reachable state no stored entity's observations list holds
\* the same string twice.
C5_NoDuplicateObservations ==
  Stored.ok => \A i \in 1..Len(Stored.val.entities) :
                 NoRepeat(Stored.val.entities[i].observations)

Mentions(r, names) == ArrIncludes(names, r.from) \/ ArrIncludes(names, r.to)

\* every relation's from and to are names of entities of the graph
Closed(g) ==
  \A i \in 1..Len(g.relations) :
    g.relations[i].from \in NameSet(g.entities) /\ g.relations[i].to \in NameSet(g.entities)

\* C6: after a successful deleteEntities(names) the stored graph has no entity
\* named in names and no relation from or to a name in names; the entities and
\* relations that mention no name of names are the ones it had, in their
\* order; and if every relation had both endpoints among the entities before,
\* so it is after.
C6_CascadingDelete ==
  (last.op = "deleteEntities" /\ last.ret.ok)
  => LET names == last.arg
         before == Before.val
         after == Stored.val
         KeptE(e) == ~ArrIncludes(names, e.name)
         KeptR(r) == ~Mentions(r, names)
     IN /\ Stored.ok
        /\ \A i \in 1..Len(after.entities) : ~ArrIncludes(names, after.entities[i].name)
        /\ \A i \in 1..Len(after.relations) : ~Mentions(after.relations[i], names)
        /\ after.entities = SelectSeq(before.entities, KeptE)
        /\ after.relations = SelectSeq(before.relations, KeptR)
        /\ (Closed(before) => Closed(after))

\* entities A and B with a relation between them were stored, A was deleted:
\* B is left and the relation is gone
C6_Witness ==
  /\ last.op = "deleteEntities"
  /\ last.ret.ok
  /\ Len(last.arg) = 1
  /\ Before.ok /\ Stored.ok
  /\ Len(Before.val.entities) = 2
  /\ Len(Before.val.relations) = 1
  /\ Closed(Before.val)
  /\ Before.val.relations[1].from # Before.val.relations[1].to
  /\ Before.val.relations[1].to = last.arg[1]
  /\ Len(Stored.val.entities) = 1
  /\ Stored.val.relations = <<>>

\* the number of stored entities with the given name
CountName(entities, n) == Cardinality({i \in 1..Len(entities) : entities[i].name = n})

\* C7: a successful createEntities(E) returns the elements of E whose name was
\* not stored before the call; the same call made again at once returns the
\* empty list and leaves the stored graph as it is; and the stored graph holds
\* exactly one entity per name of E.
C7_IdempotentCreation ==
  (last.op = "createEntities" /\ last.ret.ok)
  => LET E == last.arg
         Absent(e) == ~HasName(Before.val.entities, e.name)
         again == createEntities(E, file)
     IN /\ last.ret.val = SelectSeq(E, Absent)
        /\ again.ret.ok
        /\ again.ret.val = <<>>
        /\ loadGraph(again.file) = Stored
        /\ \A i \in 1..Len(E) : CountName(Stored.val.entities, E[i].name) = 1

\* C8: createEntities on a loadable file raises no error, and for every
\* incoming entity whose name is stored already, the stored entities of that
\* name are after the call what they were before it, and none was added.
C8_CreateNeverOverwrites ==
  (last.op = "createEntities" /\ Before.ok)
  => /\ last.ret.ok
     /\ Stored.ok
     /\ \A k \in 1..Len(last.arg) :
          HasName(Before.val.entities, last.arg[k].name)
          => /\ \A i \in 1..Len(Before.val.entities) :
                  Before.val.entities[i].name = last.arg[k].name
                  => /\ i <= Len(Stored.val.entities)
                     /\ EntityView(Stored.val.entities[i]) = EntityView(Before.val.entities[i])
             /\ CountName(Stored.val.entities, last.arg[k].name)
                  = CountName(Before.val.entities, last.arg[k].name)

\* an incoming entity had the name of a stored one and another type and
\* other observations
C8_Witness ==
  /\ last.op = "createEntities"
  /\ last.ret.ok
  /\ Before.ok
  /\ \E k \in 1..Len(last.arg) : \E i \in 1..Len(Before.val.entities) :
       /\ Before.val.entities[i].name = last.arg[k].name
       /\ Before.val.entities[i].entityType # last.arg[k].entityType
       /\ Before.val.entities[i].observations # last.arg[k].observations

\* C9: loading the file saveGraph wrote for a graph with unique entity names
\* and unique relation triples yields the entities (name, type, observations)
\* and the relations (triples) of that graph.
C9_RoundTrip ==
  (last.op = "loadGraph" /\ UniqueNames(last.arg.entities)
     /\ UniqueTriples(last.arg.relations))
  => /\ last.ret.ok
     /\ EntitySet(last.ret.val) = EntitySet(last.arg)
     /\ RelationSet(last.ret.val) = RelationSet(last.arg)

\* a graph of two entities and a relation, the entities not in name order,
\* was saved and loaded
C9_Witness ==
  /\ last.op = "loadGraph"
  /\ UniqueNames(last.arg.entities)
  /\ Len(last.arg.entities) = 2
  /\ last.arg.entities[1].name = "Ab"
  /\ Len(last.arg.relations) = 1
  /\ last.ret.ok

\* the records of the lines from the i-th on all have the given type
TypedFrom(lines, i, j, t) ==
  \A k \in i..j : lines[k].kind = "object" /\ Get(lines[k].val, "type") = t

\* C10: after a mutation returned successfully the file is the marker line,
\* then one record per entity, then one record per relation, and loading it
\* passes the marker check.
C10_WrittenFileStartsWithMarker ==
  (last.op \in Mutations /\ last.ret.ok)
  => /\ file.exists
     /\ Len(file.lines) >= 1
     /\ file.lines[1] = Stringify(FILE_MARKER)
     /\ Stored.ok
     /\ LET ne == Len(Stored.val.entities)
            nr == Len(Stored.val.relations)
        IN /\ Len(file.lines) = 1 + ne + nr
           /\ TypedFrom(file.lines, 2, 1 + ne, "entity")
           /\ TypedFrom(file.lines, 2 + ne, 1 + ne + nr, "relation")
           /\ \A i \in 1..ne : file.lines[1 + i].val = Stored.val.entities[i]
           /\ \A i \in 1..nr : file.lines[1 + ne + i].val = Stored.val.relations[i]

\* a mutation wrote a file that holds an entity and a relation
C10_Witness ==
  /\ last.op = "createRelations"
  /\ last.ret.ok
  /\ Len(last.ret.val) = 1
  /\ Stored.ok
  /\ Len(Stored.val.entities) >= 1
  /\ Len(Stored.val.relations) >= 1

\* C12: in every reachable state each stored relation's from and to are names
\* of stored entities.
C12_NoDanglingRelations == Stored.ok => Closed(Stored.val)

\* C13: createRelations checks no endpoint: it returns the incoming relations
\* whose triple was not stored, whether or not their from and to name stored
\* entities, each of them is stored after the call, and a readGraph made then
\* returns the stored graph with those relations in it.
C13_DanglingRelationStored ==
  (last.op = "createRelations" /\ last.ret.ok)
  => LET IsNew(r) == ~HasTriple(Before.val.relations, r)
         read == readGraph(file)
     IN /\ last.ret.val = SelectSeq(last.arg, IsNew)
        /\ Stored.ok
        /\ Stored.val.entities = Before.val.entities
        /\ read.ret.ok
        /\ read.file = file
        /\ read.ret.val.entities = Stored.val.entities
        /\ \A k \in 1..Len(last.arg) :
             IsNew(last.arg[k])
             => /\ HasTriple(Stored.val.relations, last.arg[k])
                /\ HasTriple(read.ret.val.relations, last.arg[k])

\* one entity was stored and a relation from it to a name that was never
\* created came in: one entity and one relation are read back
C13_Witness ==
  /\ last.op = "createRelations"
  /\ last.ret.ok
  /\ Before.ok
  /\ Len(Before.val.entities) = 1
  /\ Before.val.relations = <<>>
  /\ Len(last.arg) = 1
  /\ last.arg[1].from = Before.val.entities[1].name
  /\ last.arg[1].to # Before.val.entities[1].name
  /\ last.ret.val = last.arg
  /\ Len(readGraph(file).ret.val.entities) = 1
  /\ Len(readGraph(file).ret.val.relations) = 1
  /\ ~Closed(readGraph(file).ret.val)

\* C14: the relations searchNodes and openNodes return are the stored
\* relations whose from and to are both names of returned entities, in their
\* stored order.
C14_ReturnedGraphClosed ==
  (last.op \in {"searchNodes", "openNodes"} /\ last.ret.ok)
  => LET returned == NameSet(last.ret.val.entities)
         Inside(r) == r.from \in returned /\ r.to \in returned
     IN /\ Before.ok
        /\ last.ret.val.relations = SelectSeq(Before.val.relations, Inside)
        /\ Closed(last.ret.val)

\* a query returned an entity and a relation of it, and left out a stored
\* relation of that entity whose other endpoint was not returned
C14_Witness ==
  /\ last.op \in {"searchNodes", "openNodes"}
  /\ last.ret.ok
  /\ Len(last.ret.val.entities) >= 1
  /\ Len(last.ret.val.relations) >= 1
  /\ \E i \in 1..Len(Before.val.relations) :
       /\ Before.val.relations[i].from \in NameSet(last.ret.val.entities)
       /\ Before.val.relations[i].to \notin NameSet(last.ret.val.entities)

\* q occurs in s: some stretch of s, from after its i-th character to its
\* j-th, is q
IsSubstring(q, s) ==
  \E i \in 0..Len(s) : \E j \in i..Len(s) : SubSeq(s, i + 1, j) = q

\* C15: searchNodes(query) returns the stored entities for which the
\* lower-cased query is a substring of the lower-cased name, of the
\* lower-cased entityType or of a lower-cased observation, and no other.
C15_SearchMatches ==
  (last.op = "searchNodes" /\ Before.ok)
  => LET q == toLowerCase(last.arg)
         Hit(e) ==
           \/ IsSubstring(q, toLowerCase(e.name))
           \/ IsSubstring(q, toLowerCase(e.entityType))
           \/ \E i \in 1..Len(e.observations) :
                IsSubstring(q, toLowerCase(e.observations[i]))
     IN /\ last.ret.ok
        /\ last.ret.val.entities = SelectSeq(Before.val.entities, Hit)

\* a query in upper case returned one of two stored entities, which it
\* matches in an observation written in mixed case and in nothing else
C15_Witness ==
  /\ last.op = "searchNodes"
  /\ last.ret.ok
  /\ last.arg = "AX"
  /\ Len(Before.val.entities) = 2
  /\ Len(last.ret.val.entities) = 1
  /\ ArrIncludes(last.ret.val.entities[1].observations, "aX")

\* C16: openNodes(names) returns the stored entities whose name is, character
\* for character, an element of names; a name that matches none adds nothing
\* and raises no error.
C16_OpenMatches ==
  (last.op = "openNodes" /\ Before.ok)
  => LET Named(e) == e.name \in Range(last.arg)
     IN /\ last.ret.ok
        /\ last.ret.val.entities = SelectSeq(Before.val.entities, Named)

\* two entities were stored; names held the name of one and the name of the
\* other in another case: the one was returned
C16_Witness ==
  /\ last.op = "openNodes"
  /\ last.ret.ok
  /\ Len(last.arg) = 2
  /\ Len(Before.val.entities) = 2
  /\ Len(last.ret.val.entities) = 1
  /\ \E i \in 1..2 : \E k \in 1..2 :
       /\ Before.val.entities[i].name # last.arg[k]
       /\ toLowerCase(Before.val.entities[i].name) = toLowerCase(last.arg[k])
       /\ Before.val.entities[i].name # last.ret.val.entities[1].name

\* the strings the results add to the i-th entity, entry after entry
RECURSIVE Appended(_, _, _)
Appended(results, entities, i) ==
  IF results = <<>> THEN <<>>
  ELSE (IF FindEntity(entities, Head(results).entityName) = i
        THEN Head(results).addedObservations
        ELSE <<>>) \o Appended(Tail(results), entities, i)

\* C17: a successful addObservations returns one result per entry, in the
\* order of the entries, with the entry's entityName; its addedObservations
\* are the entry's contents that were neither in the entity's list before the
\* call nor in the contents of an earlier entry for that entity; and every
\* stored entity is what it was, its observations being the old list followed
\* by what the results add to it, entry after entry.  (The entity an entry
\* names is the first stored entity of that name.)
C17_AddObservationsResult ==
  (last.op = "addObservations" /\ last.ret.ok)
  => LET obs == last.arg
         res == last.ret.val
         before == Before.val.entities
         after == Stored.val.entities
         Seen(k) ==
           Range(before[FindEntity(before, obs[k].entityName)].observations)
             \cup UNION {Range(obs[j].contents) :
                           j \in {j \in 1..(k - 1) : obs[j].entityName = obs[k].entityName}}
     IN /\ Stored.ok
        /\ Len(res) = Len(obs)
        /\ \A k \in 1..Len(obs) :
             LET Unseen(c) == c \notin Seen(k)
             IN /\ res[k].entityName = obs[k].entityName
                /\ res[k].addedObservations = SelectSeq(obs[k].contents, Unseen)
        /\ Len(after) = Len(before)
        /\ \A i \in 1..Len(before) :
             /\ after[i].name = before[i].name
             /\ after[i].entityType = before[i].entityType
             /\ after[i].observations
                  = before[i].observations \o Appended(res, before, i)
        /\ Stored.val.relations = Before.val.relations

\* two entries named one entity that held an observation: the first added a
\* string, the second came with that string and a new one and added the new
\* one only
C17_Witness ==
  /\ last.op = "addObservations"
  /\ last.ret.ok
  /\ Len(last.arg) = 2
  /\ last.arg[1].entityName = last.arg[2].entityName
  /\ Before.val.entities[FindEntity(Before.val.entities, last.arg[1].entityName)].observations
       = <<"x">>
  /\ last.ret.val[1].addedObservations = <<"y">>
  /\ last.arg[2].contents = <<"y", "z">>
  /\ last.ret.val[2].addedObservations = <<"z">>
  /\ Stored.val.entities[FindEntity(Before.val.entities, last.arg[1].entityName)].observations
       = <<"x", "y", "z">>

\* C11: when two mutations of one database file have both read the file
\* before either opened it for writing, the file after both have completed
\* is the lines written by the save that completed last, it loads, and no
\* entity that only the other mutation created is in it.
C11_LastSaveWins ==
  \A p \in Procs : \A q \in Procs \ {p} :
    LET later == procs[p]
        earlier == procs[q]
    IN (/\ later.pc = "done" /\ earlier.pc = "done"
        /\ later.op \in Mutations /\ earlier.op \in Mutations
        /\ later.savePath # NoPath /\ earlier.savePath = later.savePath
        /\ later.cleanLoad /\ earlier.cleanLoad
        /\ q \in later.wroteAfter)
       => LET now == ReadFile(disk, later.savePath)
              written == loadGraph(FileOf(later.data))
          IN /\ now = FileOf(later.data)
             /\ loadGraph(now).ok
             /\ earlier.op = "createEntities"
                  => \A i \in 1..Len(earlier.ret.val) :
                       ~HasName(written.val.entities, earlier.ret.val[i].name)
                       => ~HasName(loadGraph(now).val.entities, earlier.ret.val[i].name)

\* the nearest of the first maxDepth directories above the working directory
\* that holds a project marker, 0 if there is none
ProjectRootOf(chain) ==
  LET marked == {d \in 1..Len(chain) : d <= maxDepth /\ chain[d] \cap projectMarkers # {}}
  IN IF marked = {} THEN 0 ELSE CHOOSE d \in marked : \A e \in marked : d <= e

\* C18: with location unset getMemoryFilePath raises no error; it returns
\* <root>/.aim/<filename> if and only if a project root is found and
\* <root>/.aim exists, and <base>/<filename> in every other case.
C18_AutoDetectPrecedence ==
  (last.op = "getMemoryFilePath" /\ last.arg.location = Undefined)
  => LET root == ProjectRootOf(disk.chain)
         filename == Filename(last.arg.context)
         inProject == root # 0 /\ ".aim" \in disk.chain[root]
     IN /\ last.ret.ok
        /\ last.ret.val = Join(AimDir(root), filename) <=> inProject
        /\ ~inProject => last.ret.val = Join(baseMemoryPath, filename)

\* the working directory lies under a project root that has no .aim, while a
\* directory further up has one: the path is in the base directory
C18_Witness ==
  /\ last.op = "getMemoryFilePath"
  /\ last.arg.location = Undefined
  /\ ProjectRootOf(disk.chain) > 1
  /\ ".aim" \notin disk.chain[ProjectRootOf(disk.chain)]
  /\ \E d \in 1..Len(disk.chain) : d <= maxDepth /\ ".aim" \in disk.chain[d]
  /\ last.ret = Ok(Join(baseMemoryPath, Filename(last.arg.context)))

\* C19: a call with location "project" where no project root is found ends
\* with the error 'No project detected', has resolved no path and leaves the
\* disk as it was; where a root is found the call works on
\* <root>/.aim/<filename>, whether or not <root>/.aim exists, a mutation that
\* the operation lets through succeeds and leaves that directory and the
\* file in it, and any other call leaves the disk as it was.
C19_ProjectLocation ==
  LET me == procs[1]
      root == ProjectRootOf(me.pre.chain)
      filePath == Join(AimDir(root), Filename(me.context))
  IN (me.pc # "idle" /\ me.location = "project")
     => IF root = 0
        THEN /\ me.pc = "done"
             /\ ~me.ret.ok
             /\ me.ret.err = "No project detected - cannot use project location"
             /\ me.path = NoPath
             /\ me.savePath = NoPath
             /\ disk = me.pre
        ELSE /\ me.path = filePath
             /\ me.savePath \in {NoPath, filePath}
             /\ (me.pc = "done")
                  => LET out == Apply(me.op, me.arg, ReadFile(me.pre, filePath))
                     IN IF me.op \in Mutations /\ out.ret.ok
                        THEN /\ me.ret = out.ret
                             /\ DirExists(disk, AimDir(root))
                             /\ ReadFile(disk, filePath) = out.file
                        ELSE /\ me.ret = out.ret
                             /\ disk = me.pre

\* a mutation was called with location "project" in a working directory with
\* no project marker at or above it: it failed and nothing was created
C19_Witness ==
  /\ procs[1].pc = "done"
  /\ procs[1].location = "project"
  /\ procs[1].op = "createEntities"
  /\ ProjectRootOf(procs[1].pre.chain) = 0
  /\ ~procs[1].ret.ok
  /\ procs[1].ret.err = "No project detected - cannot use project location"
  /\ ~disk.base
  /\ disk.files = NoFiles

\* C20: with location "global" getMemoryFilePath returns <base>/memory.jsonl
\* when context is absent and <base>/memory-<context>.jsonl when it is
\* present, whatever the directories hold.
C20_GlobalUnconditional ==
  (last.op = "getMemoryFilePath" /\ last.arg.location = "global")
  => last.ret =
       Ok(Join(baseMemoryPath,
               IF last.arg.context = Undefined THEN "memory.jsonl"
               ELSE "memory-" \o last.arg.context \o ".jsonl"))

\* C20, amended: with location "global" getMemoryFilePath returns
\* <base>/memory.jsonl when context is absent or the empty string and
\* <base>/memory-<context>.jsonl for every other context, whatever the
\* directories hold.
C20_GlobalUnlessEmpty ==
  (last.op = "getMemoryFilePath" /\ last.arg.location = "global")
  => last.ret =
       Ok(Join(baseMemoryPath,
               IF last.arg.context \in {Undefined, ""} THEN "memory.jsonl"
               ELSE "memory-" \o last.arg.context \o ".jsonl"))

\* the working directory holds .aim and the call names a context
C20_Witness ==
  /\ last.op = "getMemoryFilePath"
  /\ last.arg.location = "global"
  /\ last.arg.context = "work"
  /\ ".aim" \in disk.chain[1]
  /\ last.ret = Ok(Join(baseMemoryPath, "memory-work.jsonl"))

\* C21: an absent file and a file that holds only the marker line are the
\* same state to every operation: whichever of the two a call ran on, the
\* same call with the same input on the other one gives the same return value
\* or error and leaves the same stored graph, and the three queries return the
\* empty graph on an absent file.
C21_AbsentIsMarkerOnly ==
  (last.op # "none" /\ last.pre \in {AbsentFile, MarkerOnlyFile})
  => LET other == IF last.pre = AbsentFile THEN MarkerOnlyFile ELSE AbsentFile
         twin == Apply(last.op, last.arg, other)
     IN /\ twin.ret = last.ret
        /\ loadGraph(twin.file) = Stored
        /\ Before = Ok(EmptyGraph)
        /\ last.op \in {"readGraph", "searchNodes", "openNodes"}
           => /\ last.ret = Ok(EmptyGraph)
              /\ file = last.pre

\* entities were created on an absent file and stored, and the same call on
\* a marker-only file stores the same graph
C21_Witness ==
  /\ last.op = "createEntities"
  /\ last.pre = AbsentFile
  /\ last.ret.ok
  /\ Len(last.ret.val) = 2
  /\ Stored.ok
  /\ Len(Stored.val.entities) = 2
  /\ createEntities(last.arg, MarkerOnlyFile).file = file

\* C23: a delete none of whose targets is stored raises no error and leaves
\* the stored graph as it was: deleteEntities with names of no stored entity,
\* deleteRelations with triples of no stored relation, deleteObservations
\* whose entries name no stored entity or observations the named entity does
\* not have.
C23_AbsentTargetsNoOp ==
  LET g == Before.val
      NoSuchObservation(d) ==
        LET i == FindEntity(g.entities, d.entityName) IN
        \/ i = 0
        \/ \A k \in 1..Len(d.observations) :
             ~ArrIncludes(g.entities[i].observations, d.observations[k])
      AbsentTargets ==
        \/ /\ last.op = "deleteEntities"
           /\ \A k \in 1..Len(last.arg) : ~HasName(g.entities, last.arg[k])
        \/ /\ last.op = "deleteRelations"
           /\ \A k \in 1..Len(last.arg) : ~HasTriple(g.relations, last.arg[k])
        \/ /\ last.op = "deleteObservations"
           /\ \A k \in 1..Len(last.arg) : NoSuchObservation(last.arg[k])
  IN (Before.ok /\ AbsentTargets)
     => /\ last.ret = Ok(<<>>)
        /\ Stored = Before

\* C24: deleteObservations takes from the first stored entity of each entry's
\* name the observations that equal a string of that entry and keeps the
\* other observations in their order; every entity stays, with its name and
\* type, also when its list becomes empty; the relations stay; an entry that
\* names no stored entity is skipped without error, where addObservations
\* fails on such an entry.
C24_DeleteObservationsResult ==
  (last.op = "deleteObservations" /\ Before.ok)
  => LET old == Before.val.entities
         Named(i) == {k \in 1..Len(last.arg) :
                        FindEntity(old, last.arg[k].entityName) = i}
         Removed(i) == UNION {Range(last.arg[k].observations) : k \in Named(i)}
     IN /\ last.ret = Ok(<<>>)
        /\ Stored.ok
        /\ Stored.val.relations = Before.val.relations
        /\ Len(Stored.val.entities) = Len(old)
        /\ \A i \in 1..Len(old) :
             LET Kept(o) == o \notin Removed(i) IN
             /\ Stored.val.entities[i].name = old[i].name
             /\ Stored.val.entities[i].entityType = old[i].entityType
             /\ Stored.val.entities[i].observations
                  = SelectSeq(old[i].observations, Kept)
        /\ \A k \in 1..Len(last.arg) :
             ~HasName(old, last.arg[k].entityName)
             => ~addObservations(
                   <<[entityName |-> last.arg[k].entityName, contents |-> <<>>]>>,
                   last.pre).ret.ok

\* the call's first entry names an entity that is not stored; its second
\* entry names the stored entity and two strings, one of which the entity
\* has: that one is removed and the other observation stays
C24_Witness ==
  /\ last.op = "deleteObservations"
  /\ Before.ok
  /\ Len(Before.val.entities) = 1
  /\ Before.val.entities[1].observations = <<"y", "z">>
  /\ Len(last.arg) = 2
  /\ ~HasName(Before.val.entities, last.arg[1].entityName)
  /\ last.arg[2].entityName = Before.val.entities[1].name
  /\ last.arg[2].observations = <<"z", "x">>
  /\ last.ret = Ok(<<>>)
  /\ Stored.val.entities[1].observations = <<"y">>

\* C28 as stated: a load of a file that holds a record succeeds only if the
\* first record is the marker record itself, with its two fields and no other.
C28_MarkerDeepEquals ==
  (last.op = "readGraph" /\ HasRecord(last.pre) /\ last.ret.ok)
  => FirstRecord(last.pre) = Stringify(FILE_MARKER)

\* C28 amended: the check looks at the type and the source of the first
\* record and at nothing else. A first record that is no JSON object with
\* type "_aim" and source "mcp-knowledge-graph" makes the load fail; a first
\* record that has these two fields is taken as the marker record would be,
\* whatever other fields it has.
C28_MarkerTwoFields ==
  (last.op = "readGraph" /\ HasRecord(last.pre))
  => LET lines == SelectSeq(last.pre.lines, NonBlank)
         first == FirstRecord(last.pre)
     IN /\ ~CarriesMarker(first) => ~last.ret.ok
        /\ CarriesMarker(first)
           => last.ret = loadGraph(FileOf(<<Stringify(FILE_MARKER)>> \o Tail(lines)))

\* a file whose first record is the marker with a version field was read
\* without error
C28_Witness ==
  /\ last.op = "readGraph"
  /\ last.pre = FileOf(<<MarkerPlus, ForeignRecord>>)
  /\ Get(FirstRecord(last.pre).val, "version") = "2"
  /\ last.ret = Ok(EmptyGraph)

\* C30: findProjectRoot returns the directory nearest to the start, among the
\* start directory and its next 4 ancestors, that holds at least one of .aim,
\* .git, package.json, pyproject.toml, Cargo.toml and go.mod, whichever of
\* them it is; it returns null when none of these directories holds one,
\* also when the filesystem root comes before the fifth; it looks into at
\* most 5 directories.
C30_NearestMarkedDirectory ==
  last.op = "findProjectRoot"
  => LET chain == disk.chain
         markers == {".aim", ".git", "package.json", "pyproject.toml",
                     "Cargo.toml", "go.mod"}
         levels == {d \in 1..Len(chain) : d <= 5}
         Marked(d) == \E m \in markers : m \in chain[d]
         root == last.ret.val.root
     IN /\ last.ret.ok
        /\ last.ret.val.rounds <= 5
        /\ root # 0
           => /\ root \in levels
              /\ Marked(root)
              /\ \A d \in levels : d < root => ~Marked(d)
        /\ root = 0 <=> \A d \in levels : ~Marked(d)

\* the sixth directory is the first that holds a marker: five directories
\* were looked into and null came back
C30_Witness ==
  /\ last.op = "findProjectRoot"
  /\ Len(disk.chain) >= 6
  /\ disk.chain[6] = {"Cargo.toml"}
  /\ \A d \in 1..5 : disk.chain[d] \cap projectMarkers = {}
  /\ disk.chain[2] = {"README.md"}
  /\ last.ret.val.root = 0
  /\ last.ret.val.rounds = 5


\* the database name the file name of a store stands for: "default" for
\* memory.jsonl, <x> for memory-<x>.jsonl
StoreName(filename) ==
  IF filename = "memory.jsonl" THEN "default"
  ELSE SubSeq(filename, Len("memory-") + 1, Len(filename) - Len(".jsonl"))

IsStoreFile(filename) ==
  \/ filename = "memory.jsonl"
  \/ /\ Len(filename) >= Len("memory-") + Len(".jsonl")
     /\ SubSeq(filename, 1, Len("memory-")) = "memory-"
     /\ EndsWith(filename, ".jsonl")

Sorted(names) ==
  \A i, j \in 1..Len(names) : i < j => ~Precedes(names[j], names[i])

\* the list is sorted and names each store file of the directory once
ListsStoresOf(names, d, dir) ==
  LET stores == {f \in ReadDir(d, dir) : EndsWith(f, ".jsonl")}
  IN /\ \A f \in stores : IsStoreFile(f) => ArrIncludes(names, StoreName(f))
     /\ Len(names) = Cardinality(stores)
     /\ Sorted(names)

\* C26: listDatabases never fails; for the .aim directory of the project
\* root, when a root is found and the directory exists, and for the global
\* directory, it returns one name per file whose name ends in .jsonl,
\* "default" for memory.jsonl and <x> for memory-<x>.jsonl, each list sorted;
\* the list of a location whose directory is missing is empty.
C26_ListsEveryStore ==
  (procs[1].pc = "done" /\ procs[1].op = "listDatabases")
  => LET d == procs[1].pre
         root == ProjectRootOf(d.chain)
         listed == procs[1].ret.val
     IN /\ procs[1].ret.ok
        /\ IF root # 0 /\ ".aim" \in d.chain[root]
           THEN ListsStoresOf(listed.project_databases, d, AimDir(root))
           ELSE listed.project_databases = <<>>
        /\ IF d.base
           THEN ListsStoresOf(listed.global_databases, d, baseMemoryPath)
           ELSE listed.global_databases = <<>>

\* C27: current_location of listDatabases is the project value exactly when
\* getMemoryFilePath with location unset resolves into <root>/.aim, is
\* "global (no .aim directory in project)" exactly when a project root is
\* found that has no .aim directory, and is "global (no project detected)"
\* exactly when no project root is found.
C27_CurrentLocationAgrees ==
  (procs[1].pc = "done" /\ procs[1].op = "listDatabases")
  => LET d == procs[1].pre
         root == ProjectRootOf(d.chain)
         current == procs[1].ret.val.current_location
         IntoAim(context) ==
           LET resolved == getMemoryFilePath(context, Undefined, d.chain)
           IN resolved.ok /\ root # 0 /\ resolved.val.dir = AimDir(root)
     IN /\ current \in {"project (.aim directory detected)",
                        "global (no .aim directory in project)",
                        "global (no project detected)"}
        /\ \A context \in Contexts :
             current = "project (.aim directory detected)" <=> IntoAim(context)
        /\ current = "global (no .aim directory in project)"
             <=> (root # 0 /\ ".aim" \notin d.chain[root])
        /\ current = "global (no project detected)" <=> root = 0

\* the working directory is a git checkout without .aim and the directory
\* above it has .aim: the global location is reported, as the resolver takes it
C27_Witness ==
  /\ procs[1].pc = "done"
  /\ procs[1].op = "listDatabases"
  /\ Len(procs[1].pre.chain) >= 2
  /\ procs[1].pre.chain[1] = {".git"}
  /\ procs[1].pre.chain[2] = {".aim"}
  /\ procs[1].ret.val.current_location = "global (no .aim directory in project)"
  /\ getMemoryFilePath(Undefined, Undefined, procs[1].pre.chain).val.dir = baseMemoryPath

\* the list of listDatabases for the directory of a path
ListedFor(d, path) ==
  IF path.dir = baseMemoryPath THEN listDatabases(d).global_databases
  ELSE listDatabases(d).project_databases

\* C22: the file of a database and its directory come to exist at the first
\* successful save for its context and location and not before: a call that
\* saved nothing creates nothing, and a save creates nothing but its file and
\* its directory. While the file does not exist listDatabases does not list
\* the database; once it is saved listDatabases lists it under the location
\* it was saved to, as "default" without a context and by the name of the
\* context otherwise.
C22_CreatedByFirstSave ==
  (procs[1].pc = "done" /\ procs[1].op # "listDatabases" /\ procs[1].path # NoPath)
  => LET me == procs[1]
         saved == me.op \in Mutations /\ me.ret.ok
         name == IF me.context = Undefined THEN "default" ELSE me.context
     IN /\ ReadFile(disk, me.path).exists
             <=> (ReadFile(me.pre, me.path).exists \/ saved)
        /\ DirExists(disk, me.path.dir)
             <=> (DirExists(me.pre, me.path.dir) \/ saved)
        /\ \A q \in (DOMAIN disk.files) \ {me.path} :
             ReadFile(disk, q) = ReadFile(me.pre, q)
        /\ \A dir \in {baseMemoryPath} \cup {AimDir(r) : r \in 1..Len(disk.chain)} :
             dir # me.path.dir => (DirExists(disk, dir) <=> DirExists(me.pre, dir))
        /\ ~ReadFile(me.pre, me.path).exists
             => ~ArrIncludes(ListedFor(me.pre, me.path), name)
        /\ saved => ArrIncludes(ListedFor(disk, me.path), name)

\* the file an interrupted save left, the lines the save meant to write, and
\* the load of the process started next
Interrupted == procs[1].pc = "crashed" /\ procs[2].pc = "done" /\ procs[2].op = "readGraph"
LeftBehind == ReadFile(procs[2].pre, procs[2].path)
MarkerWritten ==
  LeftBehind.lines # <<>> /\ LeftBehind.lines[1] = Stringify(FILE_MARKER)

\* the graph holds only records of the intended graph, in their order
OnlyIntended(g) ==
  LET intended == loadGraph(FileOf(procs[1].data)).val
  IN /\ Len(g.entities) <= Len(intended.entities)
     /\ g.entities = SubSeq(intended.entities, 1, Len(g.entities))
     /\ Len(g.relations) <= Len(intended.relations)
     /\ g.relations = SubSeq(intended.relations, 1, Len(g.relations))

\* C25 as stated: after an interrupted save the next load fails when the
\* marker line was not completely written, and otherwise succeeds with a
\* graph that holds only records of the intended graph.
C25_InterruptedSaveDetected ==
  Interrupted
  => /\ ~MarkerWritten => ~procs[2].ret.ok
     /\ MarkerWritten => (procs[2].ret.ok /\ OnlyIntended(procs[2].ret.val))

\* C25 amended: after an interrupted save the next load returns the empty
\* graph without error when nothing was written; it fails when the text
\* ends inside a line, the marker line or a record; when the text ends at
\* the end of a line it returns the records written so far, which are the
\* first records of the intended graph.
C25_InterruptedSaveOutcomes ==
  Interrupted
  => LET lines == LeftBehind.lines
         torn == lines # <<>> /\ lines[Len(lines)] = InvalidLine
     IN /\ procs[2].path = procs[1].savePath
        /\ lines = <<>> => procs[2].ret = Ok(EmptyGraph)
        /\ torn => ~procs[2].ret.ok
        /\ (lines # <<>> /\ ~torn)
           => /\ MarkerWritten
              /\ procs[2].ret.ok
              /\ OnlyIntended(procs[2].ret.val)
              /\ Len(procs[2].ret.val.entities) + Len(procs[2].ret.val.relations)
                   = Len(lines) - 1
              /\ Len(lines) < Len(procs[1].data)
        /\ procs[2].ret.ok <=> ~torn

\* an entity was stored; the save of a second entity was interrupted after
\* the file was opened and before anything was written: the next load
\* returns the empty graph
C25_Witness ==
  /\ Interrupted
  /\ Len(procs[1].data) = 3
  /\ ReadFile(procs[1].pre, procs[1].path).exists
  /\ LeftBehind = FileOf(<<>>)
  /\ ~MarkerWritten
  /\ procs[2].ret = Ok(EmptyGraph)

\* C29: in every interleaving, the file a mutation's saveGraph writes is the
\* file its loadGraph read.
C29_SavesWhereLoaded ==
  \A p \in Procs :
    procs[p].savePath # NoPath => procs[p].savePath = procs[p].path

\* C31: with location unset, whenever the working directory or one of the
\* directories above it within the search depth has a .aim directory,
\* getMemoryFilePath returns a file in the nearest such .aim directory,
\* whatever markers the directories below it carry.
C31_AimDirectoryWins ==
  (last.op = "getMemoryFilePath" /\ last.arg.location = Undefined)
  => LET withAim == {d \in 1..Len(disk.chain) : d <= maxDepth /\ ".aim" \in disk.chain[d]}
     IN withAim # {}
        => LET nearest == CHOOSE d \in withAim : \A e \in withAim : d <= e
           IN last.ret = Ok(Join(AimDir(nearest), Filename(last.arg.context)))

\* the paths a file can be at: the base directory and the .aim directories
StorePaths(d) ==
  (DOMAIN d.files)
    \cup {Join(dir, Filename(context)) :
            dir \in {baseMemoryPath} \cup {AimDir(r) : r \in 1..Len(d.chain)},
            context \in DiskContexts}

\* C32: readGraph, searchNodes, openNodes and listDatabases create, change
\* and delete no file and no directory, at any step and whatever they
\* return: the stored graph of every database and the result of
\* listDatabases are after the call what they were before it.
C32_QueriesNeverWrite ==
  (procs[1].op \in {"readGraph", "searchNodes", "openNodes", "listDatabases"})
  => /\ disk = procs[1].pre
     /\ procs[1].savePath = NoPath
     /\ listDatabases(disk) = listDatabases(procs[1].pre)
     /\ \A q \in StorePaths(disk) \cup StorePaths(procs[1].pre) :
          /\ ReadFile(disk, q) = ReadFile(procs[1].pre, q)
          /\ loadGraph(ReadFile(disk, q)) = loadGraph(ReadFile(procs[1].pre, q))

\* in a project without .aim and without the base directory, a readGraph
\* of a database that was never saved returned the empty graph and no
\* directory and no file came to be
C32_Witness ==
  /\ procs[1].pc = "done"
  /\ procs[1].op = "readGraph"
  /\ procs[1].ret = Ok(EmptyGraph)
  /\ procs[1].context = "work"
  /\ disk.chain = <<{".git"}>>
  /\ ~disk.base
  /\ disk.files = NoFiles
  /\ listDatabases(disk).global_databases = <<>>

\* C33: a mutation that returns without error has saved. A deleteEntities,
\* deleteRelations, deleteObservations, createEntities([]) or
\* createRelations([]) on a database whose file is absent leaves the file,
\* holding the marker line alone, and its directory, and listDatabases then
\* lists the database under that directory.
C33_EveryMutationSaves ==
  LET me == procs[1]
      name == IF me.context = Undefined THEN "default" ELSE me.context
      changesNothing ==
        \/ me.op \in {"deleteEntities", "deleteRelations", "deleteObservations"}
        \/ (me.op \in {"createEntities", "createRelations"} /\ me.arg = <<>>)
  IN (me.pc = "done" /\ me.op \in Mutations /\ me.ret.ok)
     => /\ me.savePath = me.path
        /\ ReadFile(disk, me.path).exists
        /\ DirExists(disk, me.path.dir)
        /\ (changesNothing /\ ~ReadFile(me.pre, me.path).exists)
           => /\ ReadFile(disk, me.path) = FileOf(<<Stringify(FILE_MARKER)>>)
              /\ ArrIncludes(ListedFor(disk, me.path), name)
              /\ ~ArrIncludes(ListedFor(me.pre, me.path), name)

\* deleteEntities with location "project" in a project that had no .aim
\* directory and no database: .aim and a marker-only file are there and the
\* database is listed
C33_Witness ==
  /\ procs[1].pc = "done"
  /\ procs[1].op = "deleteEntities"
  /\ procs[1].location = "project"
  /\ procs[1].context = "work"
  /\ procs[1].ret.ok
  /\ procs[1].pre.chain = <<{".git"}>>
  /\ procs[1].pre.files = NoFiles
  /\ ".aim" \in disk.chain[1]
  /\ ReadFile(disk, procs[1].path) = MarkerOnlyFile
  /\ listDatabases(disk).project_databases = <<"work">>

\* name and type of each entity, and the triple of each relation, in order
Identities(entities) ==
  [i \in 1..Len(entities) |-> <<entities[i].name, entities[i].entityType>>]
Triples(relations) == [i \in 1..Len(relations) |-> RelationView(relations[i])]

\* one call keeps what is stored: the entities no deleteEntities names and
\* the relations no deleteRelations names and no deleteEntities names an
\* endpoint of are the first entities and relations stored after it
CallKeepsStored ==
  (last'.op # "none" /\ loadGraph(file).ok)
  => LET old == loadGraph(file).val
         new == loadGraph(file')
         GoneE(e) == last'.op = "deleteEntities" /\ ArrIncludes(last'.arg, e.name)
         GoneR(r) ==
           \/ last'.op = "deleteRelations" /\ HasTriple(last'.arg, r)
           \/ last'.op = "deleteEntities"
                /\ (ArrIncludes(last'.arg, r.from) \/ ArrIncludes(last'.arg, r.to))
         StaysE(e) == ~GoneE(e)
         StaysR(r) == ~GoneR(r)
         keptE == SelectSeq(old.entities, StaysE)
         keptR == SelectSeq(old.relations, StaysR)
     IN /\ new.ok
        /\ Len(keptE) <= Len(new.val.entities)
        /\ Identities(keptE) = Identities(SubSeq(new.val.entities, 1, Len(keptE)))
        /\ Len(keptR) <= Len(new.val.relations)
        /\ Triples(keptR) = Triples(SubSeq(new.val.relations, 1, Len(keptR)))

\* what a create returns is stored, and readGraph returns what is stored
ReturnedIsStored ==
  /\ (last.op = "createEntities" /\ last.ret.ok)
     => (Stored.ok /\ \A i \in 1..Len(last.ret.val) :
                        ArrIncludes(Stored.val.entities,
                                    Spread([type |-> "entity"], last.ret.val[i])))
  /\ (last.op = "createRelations" /\ last.ret.ok)
     => (Stored.ok /\ \A i \in 1..Len(last.ret.val) :
                        HasTriple(Stored.val.relations, last.ret.val[i]))
  /\ (last.op = "readGraph" /\ last.ret.ok)
     => (last.ret = Stored /\ file = last.pre)

\* C34: with calls on a database run one after another, an entity that
\* createEntities returned is stored, stays stored through every call but a
\* deleteEntities that names it, and is returned by readGraph while stored;
\* a relation that createRelations returned stays through every call but a
\* deleteRelations that names it and a deleteEntities that names one of its
\* endpoints.
C34_DurableUntilDeleted == []ReturnedIsStored /\ [][CallKeepsStored]_vars

\* readGraph returned two entities and a relation between them, after calls
\* that created them and a call that gave one of them an observation
C34_Witness ==
  /\ last.op = "readGraph"
  /\ last.ret.ok
  /\ Len(last.ret.val.entities) = 2
  /\ last.ret.val.entities[1].name # last.ret.val.entities[2].name
  /\ Len(last.ret.val.relations) = 1
  /\ last.ret.val.relations[1].from # last.ret.val.relations[1].to

\* C35: a mutation with location "project" in a project whose root has no
\* .aim directory creates <root>/.aim; from then on a call without location
\* resolves into <root>/.aim where it resolved into the base directory
\* before, for every context, and a readGraph without location returns the
\* graph of the file in <root>/.aim, not that of the untouched file in the
\* base directory.
C35_ProjectSaveRedirects ==
  LET me == procs[1]
      root == ProjectRootOf(me.pre.chain)
      Auto(context, d) == getMemoryFilePath(context, Undefined, d.chain)
      InBase(context) == Join(baseMemoryPath, Filename(context))
      InProject(context) == Join(AimDir(root), Filename(context))
  IN /\ (me.pc = "done" /\ me.location = "project" /\ me.op \in Mutations /\ me.ret.ok
           /\ ".aim" \notin me.pre.chain[root])
        => /\ ".aim" \in disk.chain[root]
           /\ \A context \in DiskContexts :
                /\ Auto(context, me.pre) = Ok(InBase(context))
                /\ Auto(context, disk) = Ok(InProject(context))
                /\ ReadFile(disk, InBase(context)) = ReadFile(me.pre, InBase(context))
           /\ readGraph(ReadFile(disk, Auto(me.context, disk).val)).ret
                = loadGraph(FileOf(me.data))
     /\ (me.pc = "done" /\ me.op = "readGraph" /\ me.location = Undefined
           /\ root # 0 /\ ".aim" \in me.pre.chain[root])
        => /\ me.path = InProject(me.context)
           /\ me.ret = loadGraph(ReadFile(disk, InProject(me.context)))

\* the base directory holds a database with an entity; .aim was created in
\* the git checkout by a mutation that stored no entity; a readGraph
\* without location returned the empty graph
C35_Witness ==
  /\ procs[1].pc = "done"
  /\ procs[1].op = "readGraph"
  /\ procs[1].location = Undefined
  /\ procs[1].context = Undefined
  /\ disk.chain = <<{".aim", ".git"}>>
  /\ loadGraph(ReadFile(disk, Join(baseMemoryPath, "memory.jsonl"))).val.entities # <<>>
  /\ ReadFile(disk, Join(AimDir(1), "memory.jsonl")) = MarkerOnlyFile
  /\ procs[1].ret = Ok(EmptyGraph)

\* C36: a mutation on the database of a context and a location changes that
\* database's file alone: the file at every other path, in the base
\* directory and in the .aim directories, for the same and for the other
\* context, is after the call what it was before, and so is what readGraph,
\* searchNodes and openNodes return for it.
C36_DatabasesIsolated ==
  LET me == procs[1]
      own == Join(me.path.dir,
                  IF me.context = Undefined THEN "memory.jsonl"
                  ELSE "memory-" \o me.context \o ".jsonl")
      paths == {Join(dir, name) :
                  dir \in {baseMemoryPath} \cup {AimDir(r) : r \in 1..Len(disk.chain)},
                  name \in {"memory.jsonl", "memory-work.jsonl"}}
      Same(op, arg, q) ==
        Apply(op, arg, ReadFile(disk, q)).ret = Apply(op, arg, ReadFile(me.pre, q)).ret
  IN (me.op \in Mutations /\ me.path # NoPath)
     => /\ me.path = own
        /\ DOMAIN disk.files \subseteq paths
        /\ \A q \in paths \ {own} :
             /\ ReadFile(disk, q) = ReadFile(me.pre, q)
             /\ Same("readGraph", <<>>, q)
             /\ Same("searchNodes", "a", q)
             /\ Same("openNodes", <<"a">>, q)

\* the entity was in the two databases of the base directory and in the
\* database of the context in .aim; deleteEntities with the context and
\* location "global" took it from one of them and the other two have it
C36_Witness ==
  /\ procs[1].pc = "done"
  /\ procs[1].op = "deleteEntities"
  /\ procs[1].context = "work"
  /\ procs[1].location = "global"
  /\ ".aim" \in disk.chain[1]
  /\ loadGraph(ReadFile(procs[1].pre, procs[1].path)).val.entities # <<>>
  /\ ReadFile(disk, Join(baseMemoryPath, "memory-work.jsonl")) = MarkerOnlyFile
  /\ loadGraph(ReadFile(disk, Join(baseMemoryPath, "memory.jsonl"))).val.entities # <<>>
  /\ loadGraph(ReadFile(disk, Join(AimDir(1), "memory-work.jsonl"))).val.entities # <<>>

\* C37: in a file that begins with the marker and holds, after it, lines
\* that parse to something else than an entity or a relation record (a
\* note, a second marker, a number), every operation behaves as on the file
\* without those lines and fails only where it fails there; after a
\* successful mutation the file is the marker followed by entity and
\* relation records and nothing else.
Recognised(line) ==
  line.kind = "object" /\ Get(line.val, "type") \in {"entity", "relation"}

HasUnrecognised(f) ==
  /\ f.exists
  /\ LET lines == SelectSeq(f.lines, NonBlank) IN
       /\ Len(lines) >= 2
       /\ MarkerCheck(lines[1]).ok
       /\ \A i \in 2..Len(lines) : lines[i].kind \in {"object", "scalar"}
       /\ \E i \in 2..Len(lines) : ~Recognised(lines[i])

WithoutUnrecognised(f) ==
  LET lines == SelectSeq(f.lines, NonBlank) IN
    FileOf(<<lines[1]>> \o SelectSeq(Tail(lines), Recognised))

C37_UnrecognisedDropped ==
  (last.op # "none" /\ HasUnrecognised(last.pre))
  => LET clean == Apply(last.op, last.arg, WithoutUnrecognised(last.pre)) IN
       /\ loadGraph(last.pre).ok
       /\ loadGraph(last.pre) = loadGraph(WithoutUnrecognised(last.pre))
       /\ last.ret = clean.ret
       /\ (last.op \in Mutations /\ last.ret.ok)
          => /\ file = clean.file
             /\ file.lines[1] = Stringify(FILE_MARKER)
             /\ \A i \in 2..Len(file.lines) : Recognised(file.lines[i])
             /\ ~HasUnrecognised(file)

\* addObservations on a database with a note, a second marker and a number
\* between its records: the entity and the relation are kept, the three
\* other lines are gone
C37_Witness ==
  /\ last.op = "addObservations"
  /\ last.ret.ok
  /\ Len(last.pre.lines) = 6
  /\ HasUnrecognised(last.pre)
  /\ Len(file.lines) = 3
  /\ Len(loadGraph(file).val.entities) = 1
  /\ loadGraph(file).val.entities[1].observations # <<>>
  /\ Len(loadGraph(file).val.relations) = 1

\* C38: in each location listDatabases lists "default" exactly when
\* memory.jsonl is in the directory of the location, and it lists no name
\* twice: the files of two databases never come out under one name.
IdentifiesStoresOf(names, d, dir) ==
  /\ ArrIncludes(names, "default") <=> "memory.jsonl" \in ReadDir(d, dir)
  /\ \A i, j \in 1..Len(names) : names[i] = names[j] => i = j

C38_NamesIdentifyDatabases ==
  (procs[1].pc = "done" /\ procs[1].op = "listDatabases")
  => LET d == procs[1].pre
         root == ProjectRootOf(d.chain)
         listed == procs[1].ret.val
     IN /\ (root # 0 /\ ".aim" \in d.chain[root])
           => IdentifiesStoresOf(listed.project_databases, d, AimDir(root))
        /\ d.base => IdentifiesStoresOf(listed.global_databases, d, baseMemoryPath)

====
